---------------------------- MODULE Spec2Model ----------------------------
(***************************************************************************)
(* Model of the Python embedding worker of folder-mcp:                     *)
(*   src/src/infrastructure/embeddings/python/main.py                      *)
(*   src/src/infrastructure/embeddings/python/handlers/embedding_handler.py*)
(*                                                                         *)
(* The worker is one process with these threads of control:                *)
(*   - the dispatcher (asyncio main thread, StdioJSONRPCServer.start),     *)
(*   - the executor thread running _generate_embeddings_sync,              *)
(*   - per EmbeddingHandler: the background loader (_load_model_sync),     *)
(*     the processing loop (_processing_loop) and the keep-alive timer     *)
(*     callback (_handle_keep_alive_timeout).                              *)
(* The parent process writes request lines to stdin and reads stdout.      *)
(***************************************************************************)
EXTENDS Integers, Sequences, FiniteSets, TLC

(***************************************************************************)
(* Bounds of the model.                                                    *)
(***************************************************************************)
\* largest number of texts of one request in the encoder specification
MaxTexts == 9
\* largest OOM threshold k of the fault-injected encoder
MaxK == 2
\* request lines the parent writes in one run of the worker specification
MaxRequests == 2
\* request lines that may wait unread in the stdin pipe
MaxStdin == 2
\* crawling pause window, in clock ticks (process_config crawling_pause_seconds)
CrawlingPauseTicks == 2
\* keep-alive duration, in clock ticks (process_config keep_alive_seconds)
KeepAliveTicks == 2

(***************************************************************************)
(* Program constants.                                                      *)
(***************************************************************************)
MinBatchSize == 1
MaxBatchSize == 32
MaxOomAttempts == 3
SmallContextWindow == 512
LargeContextWindow == 8192
CharsPerToken == 3
MaxSafeCharsCap == 12000
MinSafeChars == 1000

None == "None"

Min(a, b) == IF a < b THEN a ELSE b
Max(a, b) == IF a > b THEN a ELSE b

(***************************************************************************)
(* Model ids.  The code classifies a model by substrings of its name       *)
(* ('bge-m3', 'large'); the three ids cover the three classes.             *)
(***************************************************************************)
Models == {"BAAI/bge-m3", "intfloat/multilingual-e5-large", "all-MiniLM-L6-v2"}
Devices == {"cuda", "mps", "cpu"}

\* 'bge-m3' in self.model_name.lower()
HasBgeM3(model_name) == model_name = "BAAI/bge-m3"
\* 'large' in self.model_name.lower()
HasLarge(model_name) == model_name = "intfloat/multilingual-e5-large"

\* EmbeddingHandler._calculate_optimal_batch_size
CalculateOptimalBatchSize(dev, model_name) ==
    LET base_batch_size ==
          IF dev = "mps"
            THEN (IF HasBgeM3(model_name) THEN 1
                  ELSE IF HasLarge(model_name) THEN 2
                  ELSE 4)
          ELSE IF dev = "cuda"
            THEN (IF HasBgeM3(model_name) \/ HasLarge(model_name) THEN 8 ELSE 16)
          ELSE 4
    IN  Max(MinBatchSize, Min(base_batch_size, MaxBatchSize))

\* EmbeddingHandler._adaptive_batch_size_on_oom
AdaptiveBatchSizeOnOom(current_batch_size) == Max(1, current_batch_size \div 2)

\* a character budget without the cap for large context windows
MaxSafeChars_Uncapped(model_name) ==
    LET context_window == IF HasBgeM3(model_name) THEN LargeContextWindow
                          ELSE SmallContextWindow
    IN  Max(MinSafeChars, context_window * CharsPerToken)

\* _generate_embeddings_sync, lines 709-722: the character budget
MaxSafeChars(model_name) ==
    LET context_window == IF HasBgeM3(model_name) THEN LargeContextWindow
                          ELSE SmallContextWindow
        chars == context_window * CharsPerToken
        capped == IF context_window >= LargeContextWindow
                    THEN Min(chars, MaxSafeCharsCap) ELSE chars
    IN  Max(MinSafeChars, capped)

(***************************************************************************)
(* A text is [id, len]: id tells the strings of one request apart, len is  *)
(* the number of characters.  text[:n] keeps the id and has length n.      *)
(***************************************************************************)
Prefix(text, n) == [text EXCEPT !.len = Min(text.len, n)]

\* _generate_embeddings_sync, lines 725-738: truncation of one text
TruncateText(text, max_safe_chars) ==
    IF text.len > max_safe_chars THEN Prefix(text, max_safe_chars) ELSE text

ProcessedTexts(texts, model_name) ==
    [j \in 1..Len(texts) |-> TruncateText(texts[j], MaxSafeChars(model_name))]

\* the row model.encode returns for one string, as an EmbeddingVector
EmbeddingVector(text, model_name) == [of |-> text, model |-> model_name]

\* model.encode(batch): one row per string, in order
EncodeRows(batch, model_name) ==
    [j \in 1..Len(batch) |-> EmbeddingVector(batch[j], model_name)]

\* texts[i:batch_end] with Python's 0-based half-open slice
Slice(texts, i, batch_end) == SubSeq(texts, i + 1, Min(batch_end, Len(texts)))


(***************************************************************************)
(* State.                                                                  *)
(***************************************************************************)
VARIABLES
    srv,        \* the EmbeddingRPCServer object
    handlers,   \* every EmbeddingHandler constructed so far, in order
    device,     \* what detect_optimal_device() finds on this machine
    encoder,    \* how the TextEncoder of this run fails (fault injection)
    stdin,      \* request lines written by the parent, not yet read
    stdout,     \* reply objects written so far
    disp,       \* the dispatcher: where StdioJSONRPCServer.start stands
    exec,       \* the executor thread inside _generate_embeddings_sync
    nreq,       \* request lines the parent has written so far
    waiting,    \* history: <<b, i>> when batch line b was unread as immediate line i was written
    wire,       \* what the write calls of print() have put on sys.stdout, in order
    writers,    \* where each printing thread stands inside print()
    sd,         \* an EmbeddingHandler.shutdown call followed step by step
    tm          \* the threading.Timer objects of one handler and the threads using them

vars == <<srv, handlers, device, encoder, stdin, stdout, disp, exec, nreq, waiting,
          wire, writers, sd, tm>>
\* what the steps of the request path leave alone: the machine, and the
\* character stream of stdout, the stepwise shutdown call and the Timer
\* objects, which have specifications of their own
env == <<device, encoder, wire, writers, sd, tm>>
io == <<stdin, stdout, nreq, waiting>>

\* the executor when no _generate_embeddings_sync call is running
ExecIdle ==
    [ pc |-> "idle", h |-> 0, immediate |-> FALSE, begin_since |-> 0,
      texts |-> << >>, total_texts |-> 0, batch_size |-> 0,
      i |-> 0, batch_end |-> 0, attempts |-> 0, current_batch_size |-> 0,
      embeddings_list |-> << >>, embeddings |-> << >>,
      encode_error |-> "none",    \* what "except Exception as encode_error" caught
      cleanup |-> "none" ]        \* what lines 838-845 ran before the current batch

\* EmbeddingHandler.__init__ (fields the claims read)
EmbeddingHandlerInit(model_name) ==
    [ model_name          |-> model_name,
      model               |-> FALSE,      \* self.model is not None
      model_attr          |-> TRUE,       \* FALSE from "del self.model" to "self.model = None"
      semantic_handler    |-> FALSE,
      optimal_batch_size  |-> MaxBatchSize,
      request_queue       |-> {},
      processing_thread   |-> "none",
      shutdown_event      |-> FALSE,
      model_loaded_event  |-> FALSE,
      state               |-> "IDLE",
      model_loaded        |-> FALSE,
      since_immediate     |-> CrawlingPauseTicks,  \* now - last_immediate_request, saturated
      is_batch_paused     |-> FALSE,
      keep_alive_timer    |-> None,       \* None, "pending" or "fired" Timer object
      timer_left          |-> 0,          \* ticks until the pending Timer fires
      shutdown_requested  |-> FALSE,
      is_running          |-> FALSE,
      current_request     |-> << >>,      \* << >> is None
      loop_exec           |-> ExecIdle,   \* _generate_embeddings_sync in the loop thread
      loader              |-> "none",     \* position of the _load_model_sync thread
      timeout             |-> "none" ]    \* position of the timer callback thread

(***************************************************************************)
(* _generate_embeddings_sync, one step per model.encode call.              *)
(***************************************************************************)
\* what one model.encode call on n strings can do: "ok", "oom" (a RuntimeError
\* or OutOfMemoryError naming memory) or "err" (any other exception).  With
\* self.model None the call is an AttributeError.
EncodeOutcomes(h, n) ==
    IF ~handlers[h].model THEN {"err"}
    ELSE IF encoder.kind = "threshold"
           THEN (IF n > encoder.k THEN {"oom"} ELSE {"ok"})
    ELSE {"ok", "oom", "err"}

\* lines 847-851: single concatenation at the end; np.vstack([]) raises
Finalize(e) ==
    IF Len(e.embeddings_list) = 0
      THEN [e EXCEPT !.pc = "fallback", !.encode_error = "vstack"]
      ELSE [e EXCEPT !.pc = "returned", !.embeddings = e.embeddings_list]

\* lines 756-777: the head of "while i < total_texts"
NextBatch(e) ==
    IF e.i < e.total_texts
      THEN LET batch_end == Min(e.i + e.batch_size, e.total_texts)
           IN  [e EXCEPT !.pc = "attempt", !.batch_end = batch_end,
                         !.attempts = 0,
                         !.current_batch_size = batch_end - e.i]
      ELSE Finalize(e)

\* lines 838-845, with i already moved to batch_end: "light" is
\* _light_memory_cleanup and gc.collect(), "gc" is gc.collect() alone
CleanupBetweenBatches(e) ==
    IF e.batch_end + e.batch_size < e.total_texts
      THEN (IF device = "mps" THEN "light" ELSE "gc")
      ELSE "none"

\* lines 828-845: i = batch_end, reached when the retry loop of lines
\* 779-826 ends, and the cleanup between batches
MoveToNextBatch(e) ==
    NextBatch([e EXCEPT !.i = e.batch_end, !.cleanup = CleanupBetweenBatches(e)])

\* lines 805-826: the except branch of one attempt that raised OOM
OnOom(e) ==
    LET attempts == e.attempts + 1 IN
    IF e.current_batch_size > 1
      THEN LET current_batch_size == AdaptiveBatchSizeOnOom(e.current_batch_size)
               e2 == [e EXCEPT !.attempts = attempts,
                               !.current_batch_size = current_batch_size,
                               !.batch_end = e.i + current_batch_size]
           IN  IF attempts < MaxOomAttempts THEN e2 ELSE MoveToNextBatch(e2)
      ELSE [e EXCEPT !.attempts = attempts, !.pc = "fallback",
                     !.encode_error = "oom"]

\* lines 779-828: one pass of "while not batch_success and attempts < 3"
AfterAttempt(e, outcome, model_name) ==
    CASE outcome = "ok" ->
           MoveToNextBatch(
             [e EXCEPT !.embeddings_list =
                e.embeddings_list \o
                  EncodeRows(Slice(e.texts, e.i, e.batch_end), model_name)])
      [] outcome = "oom" -> OnOom(e)
      [] OTHER -> [e EXCEPT !.pc = "fallback", !.encode_error = "err"]

\* lines 693-755: entry of _generate_embeddings_sync for handler h
BeginEncode(h, hr, texts, immediate) ==
    IF ~hr.model
      THEN [ExecIdle EXCEPT !.pc = "raised", !.h = h, !.immediate = immediate,
                            !.begin_since = hr.since_immediate]
      ELSE NextBatch(
             [ExecIdle EXCEPT
                !.h = h, !.immediate = immediate,
                !.begin_since = hr.since_immediate,
                !.texts = ProcessedTexts(texts, hr.model_name),
                !.total_texts = Len(texts),
                !.batch_size = hr.optimal_batch_size])

\* one model.encode call of the batch loop
ExecAttempt ==
    /\ exec.pc = "attempt"
    /\ \E outcome \in EncodeOutcomes(exec.h, exec.batch_end - exec.i) :
         exec' = AfterAttempt(exec, outcome, handlers[exec.h].model_name)
    /\ UNCHANGED <<srv, handlers, env, io, disp>>

\* a CPU fallback whose rows are appended to the rows of the batches that
\* had succeeded before the exception
ExecFallback_KeepsPartial ==
    /\ exec.pc = "fallback"
    /\ \E outcome \in EncodeOutcomes(exec.h, exec.total_texts) :
         exec' = IF outcome = "ok"
                   THEN [exec EXCEPT !.pc = "returned",
                           !.embeddings =
                              exec.embeddings_list \o
                              EncodeRows(exec.texts, handlers[exec.h].model_name)]
                   ELSE [exec EXCEPT !.pc = "raised"]
    /\ UNCHANGED <<srv, handlers, env, io, disp>>

\* lines 867-892: the CPU fallback, one model.encode call on the whole list
ExecFallback ==
    /\ exec.pc = "fallback"
    /\ \E outcome \in EncodeOutcomes(exec.h, exec.total_texts) :
         exec' = IF outcome = "ok"
                   THEN [exec EXCEPT !.pc = "returned",
                           !.embeddings =
                              EncodeRows(exec.texts, handlers[exec.h].model_name)]
                   ELSE [exec EXCEPT !.pc = "raised"]
    /\ UNCHANGED <<srv, handlers, env, io, disp>>


(***************************************************************************)
(* EmbeddingHandler: model release, keep-alive timer, threads.             *)
(***************************************************************************)
\* EmbeddingHandler._unload_model
UnloadModel(hr) ==
    IF hr.model
      THEN [hr EXCEPT !.semantic_handler = FALSE, !.model = FALSE,
                      !.model_loaded = FALSE, !.model_loaded_event = FALSE]
      ELSE hr

\* a Timer that has not fired and was not cancelled
TimerPending(hr) == hr.keep_alive_timer = "pending"

\* EmbeddingHandler._reset_keep_alive_timer
ResetKeepAliveTimer(hr) ==
    IF hr.shutdown_requested
      THEN [hr EXCEPT !.keep_alive_timer = None, !.timer_left = 0]
      ELSE [hr EXCEPT !.keep_alive_timer = "pending",
                      !.timer_left = KeepAliveTicks]

\* EmbeddingHandler.initialize: device probe, batch size, the two threads
HandlerInitialize(hr) ==
    [hr EXCEPT !.optimal_batch_size =
                  CalculateOptimalBatchSize(device, hr.model_name),
               !.loader = "start",
               !.processing_thread = "running",
               !.is_running = TRUE]

\* _load_model_sync, lines 244-278 and 302-310: SentenceTransformer(...) and
\* the test encode either give a model or raise, and then self.model = None
LoaderLoad(h) ==
    /\ h \in DOMAIN handlers
    /\ handlers[h].loader = "start"
    /\ \E ok \in BOOLEAN :
         handlers' = [handlers EXCEPT ![h] =
            IF ok THEN [@ EXCEPT !.model = TRUE, !.model_attr = TRUE,
                                 !.loader = "loaded"]
                  ELSE [@ EXCEPT !.model = FALSE, !.model_attr = TRUE,
                                 !.loader = "failed"]]
    /\ UNCHANGED <<srv, env, io, disp, exec>>

\* _load_model_sync, lines 280-282: self.model.device is read (an
\* AttributeError when the model was released meanwhile), then the event is set
LoaderSetEvent(h) ==
    /\ h \in DOMAIN handlers
    /\ handlers[h].loader = "loaded"
    /\ handlers' = [handlers EXCEPT ![h] =
          IF @.model
            THEN [@ EXCEPT !.model_loaded_event = TRUE, !.loader = "event_set"]
            ELSE [@ EXCEPT !.model = FALSE, !.model_attr = TRUE,
                           !.loader = "failed"]]
    /\ UNCHANGED <<srv, env, io, disp, exec>>

\* _load_model_sync, lines 283-300: model_loaded = True, semantic handler
LoaderSetLoaded(h) ==
    /\ h \in DOMAIN handlers
    /\ handlers[h].loader = "event_set"
    /\ handlers' = [handlers EXCEPT ![h] =
          [@ EXCEPT !.model_loaded = TRUE,
                    !.semantic_handler = @ \/ handlers[h].model,
                    !.loader = "done"]]
    /\ UNCHANGED <<srv, env, io, disp, exec>>

\* _handle_keep_alive_timeout, lines 1152-1163: the check under state_lock
KeepAliveBusy(hr) ==
    \/ hr.state # "IDLE"
    \/ Cardinality(hr.request_queue) > 0
    \/ hr.current_request # << >>

\* the Timer fires: _handle_keep_alive_timeout up to the release of the lock
KeepAliveTimeout(h) ==
    /\ h \in DOMAIN handlers
    /\ TimerPending(handlers[h])
    /\ handlers[h].timer_left = 0
    /\ handlers' = [handlers EXCEPT ![h] =
          IF KeepAliveBusy(@)
            THEN ResetKeepAliveTimer(@)
            ELSE [@ EXCEPT !.state = "UNLOADING", !.timeout = "unloading",
                           !.keep_alive_timer = "fired"]]
    /\ UNCHANGED <<srv, env, io, disp, exec>>

\* _handle_keep_alive_timeout, lines 1165-1172, and _unload_model up to
\* "del self.model" (line 427), run outside the lock.  Reading self.model
\* while another thread is between its "del self.model" and its
\* "self.model = None" raises AttributeError: lines 1180-1189.
KeepAliveUnload(h) ==
    /\ h \in DOMAIN handlers
    /\ handlers[h].timeout = "unloading"
    /\ handlers' = [handlers EXCEPT ![h] =
          IF ~@.model_attr
            THEN [@ EXCEPT !.shutdown_requested = TRUE,
                           !.timeout = "shutdown_worker"]
          ELSE IF @.model
            THEN [@ EXCEPT !.semantic_handler = FALSE, !.model = FALSE,
                           !.model_attr = FALSE, !.timeout = "deleted"]
          ELSE [@ EXCEPT !.state = "IDLE", !.timeout = "none"]]
    /\ UNCHANGED <<srv, env, io, disp, exec>>

\* the timer thread's last step: _unload_model from "self.model = None"
\* (lines 428-430) and _handle_keep_alive_timeout lines 1174-1178, or the
\* thread _graceful_shutdown_worker started at line 1189
KeepAliveFinish(h) ==
    /\ h \in DOMAIN handlers
    /\ handlers[h].timeout \in {"deleted", "shutdown_worker"}
    /\ handlers' = [handlers EXCEPT ![h] =
          IF @.timeout = "deleted"
            THEN [@ EXCEPT !.model = FALSE, !.model_attr = TRUE,
                           !.model_loaded = FALSE,
                           !.model_loaded_event = FALSE,
                           !.state = "IDLE", !.timeout = "none"]
            ELSE [@ EXCEPT !.shutdown_event = TRUE, !.is_running = FALSE,
                           !.timeout = "none"]]
    /\ UNCHANGED <<srv, env, io, disp, exec>>


(***************************************************************************)
(* The processing loop thread (_processing_loop, _process_request).        *)
(***************************************************************************)
\* QueuedRequest.__lt__
QueuedLess(a, b) ==
    IF a.priority # b.priority THEN a.priority < b.priority
    ELSE a.timestamp < b.timestamp

\* what PriorityQueue.get may return: an item no other item is less than
QueueHeads(queue) == {a \in queue : \A b \in queue : ~QueuedLess(b, a)}

\* lines 572-577: the crawling pause expires
ExpirePause(hr) ==
    IF hr.is_batch_paused /\ hr.since_immediate >= CrawlingPauseTicks
      THEN [hr EXCEPT !.is_batch_paused = FALSE]
      ELSE hr

\* lines 585-595 and 610-630: what the loop does with the item it dequeued
TakeItem(h, hr, item) ==
    IF item.priority = 1 /\ hr.is_batch_paused
      THEN hr                                   \* put back (lines 586-590)
      ELSE LET q == hr.request_queue \ {item}
               working == [hr EXCEPT !.request_queue = q,
                                     !.current_request = <<item>>,
                                     !.state = "WORKING"]
           IN  IF ~hr.model_loaded_event \/ ~hr.model
                 THEN [working EXCEPT !.loop_exec =
                          [ExecIdle EXCEPT !.pc = "raised", !.h = h]]
                 ELSE [working EXCEPT !.loop_exec =
                          BeginEncode(h, hr, item.request.texts,
                                      item.request.immediate)]

\* the records the handler can be in after one step of its loop thread
LoopSuccessors(h) ==
    LET hr == handlers[h]
        le == hr.loop_exec
    IN  CASE le.pc = "idle" ->
               IF hr.shutdown_event
                 THEN {[hr EXCEPT !.processing_thread = "stopped"]}
               ELSE IF hr.request_queue = {}
                 THEN {ExpirePause(hr)}
               ELSE {TakeItem(h, ExpirePause(hr), item) :
                        item \in QueueHeads(hr.request_queue)}
          [] le.pc = "attempt" ->
               {[hr EXCEPT !.loop_exec = AfterAttempt(le, outcome, hr.model_name)] :
                  outcome \in EncodeOutcomes(h, le.batch_end - le.i)}
          [] le.pc = "fallback" ->
               {[hr EXCEPT !.loop_exec =
                   IF outcome = "ok"
                     THEN [le EXCEPT !.pc = "returned",
                                     !.embeddings = EncodeRows(le.texts, hr.model_name)]
                     ELSE [le EXCEPT !.pc = "raised"]] :
                  outcome \in EncodeOutcomes(h, le.total_texts)}
          [] OTHER ->      \* lines 632-691 and 595: the future is completed
               {[hr EXCEPT !.loop_exec = ExecIdle, !.state = "IDLE",
                           !.current_request = << >>]}

ProcessingLoopStep(h) ==
    /\ h \in DOMAIN handlers
    /\ handlers[h].processing_thread = "running"
    /\ \E hr \in LoopSuccessors(h) : handlers' = [handlers EXCEPT ![h] = hr]
    /\ UNCHANGED <<srv, env, io, disp, exec>>

(***************************************************************************)
(* Time.  One tick of the clock ages every handler's last immediate        *)
(* request and every pending Timer; a Timer that is due fires first.       *)
(***************************************************************************)
Aged(hr) ==
    [hr EXCEPT !.since_immediate = Min(@ + 1, CrawlingPauseTicks),
               !.timer_left = IF TimerPending(hr) THEN @ - 1 ELSE @]

Tick ==
    /\ \A h \in DOMAIN handlers :
          ~(TimerPending(handlers[h]) /\ handlers[h].timer_left = 0)
    /\ handlers' = [h \in DOMAIN handlers |-> Aged(handlers[h])]
    /\ handlers' # handlers
    /\ UNCHANGED <<srv, env, io, disp, exec>>


(***************************************************************************)
(* Request lines and replies.                                              *)
(***************************************************************************)
ShortLen == 5
LongLens == {1537, 100000}

\* n strings, the one at index long (if any) of length longLen
TextList(n, long, longLen) ==
    [j \in 1..n |-> [id |-> j, len |-> IF j = long THEN longLen ELSE ShortLen]]

TextLists(maxn, lens) ==
    {TextList(n, 0, ShortLen) : n \in 1..maxn}
      \cup {TextList(n, n, l) : n \in 1..maxn, l \in lens}

\* the bounds of the worker specification's inputs
SysMaxTexts == 2
SysModels == {"BAAI/bge-m3", "all-MiniLM-L6-v2"}

\* the "id" member of a request without one, and of the replies to it
NoId == 0

\* One stdin line as json.loads sees it.  form: "object" (a JSON object),
\* "array" (valid JSON, not an object), "garbage" (not JSON) or "eof" (the
\* parent closed the pipe: readline returns the empty string).  id: the
\* "id" member, NoId when absent.  method: the "method" member, "" when
\* absent.  params: "dict" (an object holding what the method reads),
\* "no_texts" (an object without "texts") or "list" (a non-empty array).
Request(id, method, texts, immediate, model_name) ==
    [form |-> "object", id |-> id, method |-> method, params |-> "dict",
     texts |-> texts, immediate |-> immediate, model_name |-> model_name]

NoRequest == Request(0, "none", << >>, FALSE, None)

\* the request lines the parent may write, with id i
RequestLines(i) ==
    {Request(i, "generate_embeddings", t, imm, None) :
        t \in TextLists(SysMaxTexts, {}), imm \in BOOLEAN}
      \cup {Request(i, "load_model", << >>, FALSE, m) : m \in SysModels}
      \cup {Request(i, "unload_model", << >>, FALSE, None),
            Request(i, "get_status", << >>, FALSE, None)}

\* StdioJSONRPCServer._process_request, lines 977-982: a success response
Result(id, method, body) ==
    [id |-> id, kind |-> "result", method |-> method, body |-> body]

\* the JSON-RPC error codes used by _process_request
ParseError == 0 - 32700
InvalidRequest == 0 - 32600
MethodNotFound == 0 - 32601
InternalError == 0 - 32603

\* StdioJSONRPCServer._error_response
ErrorResponse(id, method, code, message) ==
    [id |-> id, kind |-> "error", method |-> method,
     body |-> [code |-> code, message |-> message]]

\* EmbeddingResponse.to_dict
EmbeddingResponse(success, embeddings, error) ==
    [success |-> success, embeddings |-> embeddings, error |-> error]

(***************************************************************************)
(* EmbeddingRPCServer.                                                     *)
(***************************************************************************)
\* a constructor that starts in loading whether or not a model is named
ServerInit_AlwaysLoading(model_name) ==
    [ phase            |-> "constructed",
      model_name       |-> model_name,
      handler          |-> 0,
      semantic_handler |-> FALSE,
      is_running       |-> FALSE,
      state            |-> "loading",
      loading_progress |-> 0 ]

\* EmbeddingRPCServer.__init__ with sys.argv[1] = model_name (or None)
ServerInit(model_name) ==
    [ phase            |-> "constructed",
      model_name       |-> model_name,
      handler          |-> 0,             \* index into handlers, 0 is None
      semantic_handler |-> FALSE,
      is_running       |-> FALSE,
      state            |-> IF model_name = None THEN "idle" ELSE "loading",
      loading_progress |-> 0 ]

\* EmbeddingHandler.__init__(self, model_name): the keyword arguments a call
\* may pass besides the model name
HandlerInitKeywords == {}

\* whether EmbeddingHandler(model_name, **kwargs) raises TypeError
ConstructorRaises(kwargs) == ~(kwargs \subseteq HandlerInitKeywords)

\* validate_device_compatibility for the device detect_optimal_device returned
ValidateDeviceCompatibility(model_name, dev) == dev \in Devices

\* EmbeddingRPCServer.initialize, run by main() before the stdio loop starts
ServerInitialize ==
    /\ srv.phase = "constructed"
    /\ IF srv.model_name = None
         THEN /\ srv' = [srv EXCEPT !.phase = "serving", !.state = "idle",
                                    !.loading_progress = 0, !.is_running = TRUE]
              /\ UNCHANGED handlers
         ELSE IF ConstructorRaises({})
         THEN /\ srv' = [srv EXCEPT !.phase = "exited", !.state = "loading",
                                    !.loading_progress = 10]
              /\ UNCHANGED handlers
         ELSE IF ~ValidateDeviceCompatibility(srv.model_name, device)
         THEN /\ srv' = [srv EXCEPT !.phase = "exited", !.state = "error",
                                    !.loading_progress = 30,
                                    !.handler = Len(handlers) + 1]
              /\ handlers' = Append(handlers, EmbeddingHandlerInit(srv.model_name))
         ELSE /\ handlers' = Append(handlers,
                                HandlerInitialize(EmbeddingHandlerInit(srv.model_name)))
              /\ srv' = [srv EXCEPT !.phase = "serving", !.state = "ready",
                                    !.loading_progress = 100,
                                    !.handler = Len(handlers) + 1,
                                    !.semantic_handler = FALSE,
                                    !.is_running = TRUE]
    /\ UNCHANGED <<env, io, disp, exec>>

\* EmbeddingRPCServer.get_status
GetStatus ==
    [state    |-> IF srv.state \in {"loading", "ready", "unloading", "error"}
                    THEN srv.state ELSE "idle",
     model    |-> srv.model_name,
     progress |-> srv.loading_progress]

\* EmbeddingRPCServer.health_check: the fields that report the lifecycle
HealthCheck ==
    [status           |-> IF srv.state = "ready" THEN "healthy" ELSE srv.state,
     state            |-> srv.state,
     loading_progress |-> srv.loading_progress,
     current_model    |-> srv.model_name,
     model_loaded     |-> srv.state = "ready",
     queue_size       |-> IF srv.handler # 0
                            THEN Cardinality(handlers[srv.handler].request_queue)
                            ELSE 0]

\* _unload_model reads self.model at line 410: it raises AttributeError
\* while the timer thread is between "del self.model" and "self.model = None"
ReleaseRaises == srv.handler # 0 /\ ~handlers[srv.handler].model_attr

\* an unload_model that answers "No model loaded" whenever there is no
\* handler, whatever the lifecycle state
UnloadModelRpc_OnlyWithHandler ==
    IF srv.state = "idle" \/ srv.handler = 0
      THEN <<srv, handlers, [success |-> TRUE, state |-> "idle"]>>
    ELSE IF ReleaseRaises
      THEN <<[srv EXCEPT !.state = "error"], handlers,
             [success |-> FALSE, state |-> "error"]>>
    ELSE <<[srv EXCEPT !.handler = 0, !.semantic_handler = FALSE,
                       !.state = "idle", !.model_name = None,
                       !.loading_progress = 0],
           [handlers EXCEPT ![srv.handler] = UnloadModel(@)],
           [success |-> TRUE, state |-> "idle"]>>

\* EmbeddingRPCServer.unload_model: <<srv', handlers', result>>
UnloadModelRpc ==
    IF srv.state = "idle"
      THEN <<srv, handlers, [success |-> TRUE, state |-> "idle"]>>
    ELSE IF srv.handler = 0
      THEN <<[srv EXCEPT !.state = "idle", !.model_name = None],
             handlers, [success |-> TRUE, state |-> "idle"]>>
    ELSE IF ReleaseRaises                       \* lines 699-707
      THEN <<[srv EXCEPT !.state = "error"], handlers,
             [success |-> FALSE, state |-> "error"]>>
    ELSE <<[srv EXCEPT !.handler = 0, !.semantic_handler = FALSE,
                       !.state = "idle", !.model_name = None,
                       !.loading_progress = 0],
           [handlers EXCEPT ![srv.handler] = UnloadModel(@)],
           [success |-> TRUE, state |-> "idle"]>>

\* load_model, lines 746-766: the current handler is released and dropped
DropHandler(hs, h) ==
    IF h = 0 THEN hs
    ELSE [hs EXCEPT ![h] =
            [(IF @.model THEN UnloadModel(@) ELSE @) EXCEPT !.shutdown_event = TRUE]]

\* the keyword arguments of the EmbeddingHandler(...) call at line 801
LoadModelKeywords == {"capabilities"}

\* EmbeddingRPCServer.load_model: <<srv', handlers', result>>
LoadModelRpc(new_model) ==
    IF new_model = None
      THEN <<srv, handlers, [success |-> FALSE, state |-> "none"]>>
    ELSE IF /\ srv.model_name = new_model
            /\ srv.handler # 0
            /\ handlers[srv.handler].model_loaded
      THEN <<srv, handlers, [success |-> TRUE, state |-> "ready"]>>
    ELSE
      LET dropped == DropHandler(handlers, srv.handler)
          loading == [srv EXCEPT !.handler = 0, !.semantic_handler = FALSE,
                                 !.state = "loading", !.loading_progress = 10,
                                 !.model_name = new_model]
      IN  IF ConstructorRaises(LoadModelKeywords)
            THEN <<[loading EXCEPT !.state = "error"], dropped,
                   [success |-> FALSE, state |-> "error"]>>
          ELSE IF ~ValidateDeviceCompatibility(new_model, device)
            THEN <<[loading EXCEPT !.state = "error", !.loading_progress = 30,
                                   !.handler = Len(dropped) + 1],
                   Append(dropped, EmbeddingHandlerInit(new_model)),
                   [success |-> FALSE, state |-> "error"]>>
          ELSE <<[loading EXCEPT !.state = "ready", !.loading_progress = 100,
                                 !.handler = Len(dropped) + 1],
                 Append(dropped, HandlerInitialize(EmbeddingHandlerInit(new_model))),
                 [success |-> TRUE, state |-> "ready"]>>


(***************************************************************************)
(* The dispatcher: StdioJSONRPCServer.start and _process_request.  It      *)
(* reads one line, awaits its handler, writes the reply, reads the next.   *)
(***************************************************************************)
\* pc "read": inside sys.stdin.readline, after "while self.is_running" was
\* passed.  shutdown_task: the _delayed_shutdown task is scheduled.
DispatcherIdle ==
    [pc |-> "read", req |-> NoRequest, is_running |-> TRUE,
     shutdown_task |-> FALSE]

\* start, line 902: the loop condition, evaluated after a line was handled
LoopTop(d) ==
    [d EXCEPT !.pc = IF d.is_running THEN "read" ELSE "stopped",
              !.req = NoRequest]

\* the parent writes one request line into the stdin pipe
Submit(req) ==
    /\ nreq < MaxRequests
    /\ Len(stdin) < MaxStdin
    /\ \A j \in 1..Len(stdin) : stdin[j].form # "eof"
    /\ req.id \in {NoId, nreq + 1}
    /\ nreq' = nreq + 1
    /\ stdin' = Append(stdin, req)
    /\ waiting' =
         IF req.method = "generate_embeddings" /\ req.immediate
           THEN waiting \cup
                  {<<stdin[j].id, req.id>> : j \in
                     {j \in 1..Len(stdin) :
                        /\ stdin[j].method = "generate_embeddings"
                        /\ ~stdin[j].immediate}}
           ELSE waiting
    /\ UNCHANGED <<srv, handlers, env, stdout, disp, exec>>

\* main.py line 921: print(json.dumps(response))
WriteReply(reply) == stdout' = Append(stdout, reply)

\* a generate_embeddings that, besides running the request itself, also put
\* it on the request queue of the processing loop
ActivityTracking_AlsoQueued(hr, req) ==
    [(IF req.immediate
        THEN ResetKeepAliveTimer([hr EXCEPT !.since_immediate = 0,
                                            !.is_batch_paused = TRUE])
        ELSE hr)
       EXCEPT !.request_queue =
                 @ \cup {[priority |-> IF req.immediate THEN 0 ELSE 1,
                          timestamp |-> 0, request |-> req]}]

\* EmbeddingHandler.generate_embeddings, lines 515-521: activity tracking
ActivityTracking(hr, req) ==
    IF req.immediate
      THEN ResetKeepAliveTimer([hr EXCEPT !.since_immediate = 0,
                                          !.is_batch_paused = TRUE])
      ELSE hr

\* a dispatcher that hands _generate_embeddings_sync to the executor and
\* goes on reading lines without awaiting it
Admit_NotAwaited(h, req) ==
    LET hr == handlers[h]
        tracked == ActivityTracking(hr, req)
    IN  IF ~hr.model_loaded_event
          THEN /\ WriteReply(Result(req.id, req.method,
                               EmbeddingResponse(FALSE, << >>, "Model loading timeout")))
               /\ disp' = LoopTop(disp)
               /\ UNCHANGED <<handlers, exec>>
          ELSE /\ handlers' = [handlers EXCEPT ![h] = tracked]
               /\ exec' = BeginEncode(h, tracked, req.texts, req.immediate)
               /\ disp' = [disp EXCEPT !.pc = "read", !.req = req]
               /\ UNCHANGED stdout

\* EmbeddingHandler.generate_embeddings, lines 507-529: the wait for the
\* loaded event, activity tracking and the hand-over of
\* _generate_embeddings_sync to the executor
Admit(h, req) ==
    LET hr == handlers[h]
        tracked == ActivityTracking(hr, req)
    IN  IF ~hr.model_loaded_event
          THEN /\ WriteReply(Result(req.id, req.method,
                               EmbeddingResponse(FALSE, << >>, "Model loading timeout")))
               /\ disp' = LoopTop(disp)
               /\ UNCHANGED <<handlers, exec>>
          ELSE /\ handlers' = [handlers EXCEPT ![h] = tracked]
               /\ exec' = BeginEncode(h, tracked, req.texts, req.immediate)
               /\ disp' = [disp EXCEPT !.pc = "await_exec", !.req = req]
               /\ UNCHANGED stdout

\* a dispatcher that drops the reply of a line it handled after is_running
\* was cleared
Answer_OnlyWhileRunning(reply) ==
    /\ stdout' = IF disp.is_running THEN Append(stdout, reply) ELSE stdout
    /\ disp' = LoopTop(disp)

\* a line was handled without waiting: the reply is written (start, lines
\* 918-921) and the loop condition is evaluated
Answer(reply) ==
    /\ WriteReply(reply)
    /\ disp' = LoopTop(disp)

\* EmbeddingRPCServer.generate_embeddings and EmbeddingHandler.generate_embeddings
\* up to _ensure_model_loaded
GenerateEmbeddingsRpc(req) ==
    IF srv.handler = 0 \/ ~srv.is_running
      THEN /\ Answer(Result(req.id, req.method,
                 EmbeddingResponse(FALSE, << >>, "Server not initialized or not running")))
           /\ UNCHANGED <<handlers, exec>>
    ELSE IF req.params # "dict"     \* EmbeddingRequest.from_dict raises
      THEN /\ Answer(Result(req.id, req.method,
                 EmbeddingResponse(FALSE, << >>,
                    IF req.params = "no_texts" THEN "KeyError" ELSE "TypeError")))
           /\ UNCHANGED <<handlers, exec>>
    ELSE IF ~handlers[srv.handler].is_running
      THEN /\ Answer(Result(req.id, req.method,
                 EmbeddingResponse(FALSE, << >>, "Handler not running")))
           /\ UNCHANGED <<handlers, exec>>
    ELSE IF ~handlers[srv.handler].model_attr   \* AttributeError, lines 553-564
      THEN /\ Answer(Result(req.id, req.method,
                 EmbeddingResponse(FALSE, << >>, "AttributeError")))
           /\ UNCHANGED <<handlers, exec>>
    ELSE IF handlers[srv.handler].model /\ handlers[srv.handler].model_loaded
      THEN Admit(srv.handler, req)
    ELSE /\ disp' = [disp EXCEPT !.pc = "ensure_wait", !.req = req]
         /\ UNCHANGED <<handlers, stdout, exec>>

\* EmbeddingHandler._cancel_keep_alive_timer
CancelKeepAliveTimer(hr) ==
    IF hr.keep_alive_timer # None
      THEN [hr EXCEPT !.keep_alive_timer = None, !.timer_left = 0]
      ELSE hr

\* EmbeddingHandler.shutdown: the flags, the timer, the model.  The join of
\* the processing thread returns when the thread ends or the wait times out.
HandlerShutdown(hr) ==
    LET stopped == CancelKeepAliveTimer(
                      [hr EXCEPT !.shutdown_requested = TRUE,
                                 !.shutdown_event = TRUE,
                                 !.is_running = FALSE])
    IN  IF stopped.model_attr /\ stopped.model
          THEN [stopped EXCEPT !.model = FALSE]
          ELSE stopped

\* EmbeddingRPCServer.shutdown, lines 553-559: with params that are neither
\* empty nor an object, ShutdownRequest.from_dict raises AttributeError and
\* so does request_data.get in the except branch
ShutdownRaises(req) == req.params = "list"

\* str(e) of that AttributeError, inside the dispatcher's f-string
AttributeErrorText == "'list' object has no attribute 'get'"
InternalErrorMessage(text) == <<"Internal error: ", text>>

\* EmbeddingRPCServer._ensure_semantic_handler: the server's reference after
\* the call.  The wait for model_loaded_event returns at once when the event
\* is set and gives up after 30 s when it is not.
EnsureSemanticHandler ==
    IF srv.handler = 0 THEN srv.semantic_handler
    ELSE IF ~handlers[srv.handler].model_loaded
            /\ ~handlers[srv.handler].model_loaded_event
      THEN srv.semantic_handler
    ELSE IF handlers[srv.handler].semantic_handler THEN TRUE
    ELSE srv.semantic_handler

\* EmbeddingRPCServer.extract_keyphrases: <<srv', result>>; success means
\* KeyBERT ran the model on the text
ExtractKeyphrasesRpc ==
    IF EnsureSemanticHandler
      THEN <<[srv EXCEPT !.semantic_handler = TRUE],
             [success |-> TRUE, error |-> None]>>
      ELSE <<srv, [success |-> FALSE, error |-> "Semantic handler not initialized"]>>

\* what SemanticExtractionHandler.extract_keyphrases returns for one text:
\* the list of its scored phrases, here one phrase that names the text
Keyphrases(text) == <<[text |-> text.id]>>

\* a batch extraction that stops at the first text whose extraction raises
ExtractKeyphrasesBatchRpc_StopsAtFailure(texts, failing) ==
    IF ~EnsureSemanticHandler
      THEN <<srv, [keyphrases_batch |-> << >>, success |-> FALSE,
                   error |-> "Semantic handler not initialized"]>>
    ELSE IF Len(texts) = 0
      THEN <<[srv EXCEPT !.semantic_handler = TRUE],
             [keyphrases_batch |-> << >>, success |-> FALSE,
              error |-> "No texts provided for batch processing"]>>
    ELSE <<[srv EXCEPT !.semantic_handler = TRUE],
           [keyphrases_batch |->
               [j \in {k \in 1..Len(texts) : \A f \in failing : k < f} |->
                   Keyphrases(texts[j])],
            success |-> TRUE, error |-> None]>>

\* EmbeddingRPCServer.extract_keyphrases_keybert_batch: <<srv', result>>;
\* failing holds the indexes of the texts whose extraction raises
ExtractKeyphrasesBatchRpc(texts, failing) ==
    IF ~EnsureSemanticHandler
      THEN <<srv, [keyphrases_batch |-> << >>, success |-> FALSE,
                   error |-> "Semantic handler not initialized"]>>
    ELSE IF Len(texts) = 0
      THEN <<[srv EXCEPT !.semantic_handler = TRUE],
             [keyphrases_batch |-> << >>, success |-> FALSE,
              error |-> "No texts provided for batch processing"]>>
    ELSE <<[srv EXCEPT !.semantic_handler = TRUE],
           [keyphrases_batch |->
               [j \in 1..Len(texts) |->
                   IF j \in failing THEN << >> ELSE Keyphrases(texts[j])],
            success |-> TRUE, error |-> None]>>

\* get_supported_models: the huggingfaceId members of gpuModels.models in
\* the registry file curated-models.json
GetSupportedModels == {"BAAI/bge-m3", "intfloat/multilingual-e5-large"}

\* validate_model
ValidateModel(model_name) ==
    /\ model_name # None
    /\ model_name # ""
    /\ model_name \in GetSupportedModels

\* what the cache and the hub do with a download: the model is already
\* cached, it is downloaded, or the download raises
DownloadOutcomes == {"cached", "downloaded", "failed"}

\* EmbeddingRPCServer.download_model and EmbeddingHandler.download_model:
\* <<handlers', result>>
DownloadModelRpc(model_name, outcome) ==
    IF srv.handler = 0
      THEN <<handlers, [success |-> FALSE, error |-> "Handler not initialized"]>>
    ELSE IF ~ValidateModel(model_name)
      THEN <<handlers, [success |-> FALSE, error |-> "not in supported list",
                        progress |-> 0]>>
    ELSE <<[handlers EXCEPT ![srv.handler] = ResetKeepAliveTimer(@)],
           IF outcome = "failed"
             THEN [success |-> FALSE, error |-> "download failed", progress |-> 0]
             ELSE [success |-> TRUE, error |-> None, progress |-> 100]>>

\* the methods _process_request routes, lines 948-973
RoutedMethods ==
    {"generate_embeddings", "health_check", "download_model", "is_model_cached",
     "unload_model", "load_model", "extract_keyphrases_keybert",
     "extract_keyphrases_keybert_batch", "is_keybert_available", "get_status",
     "shutdown"}

\* a dispatcher that answers an unknown method like a missing one
UnknownMethod_InvalidRequest(req) ==
    /\ Answer(ErrorResponse(req.id, req.method, InvalidRequest, "Missing method"))
    /\ UNCHANGED <<srv, handlers, exec>>

\* _process_request, lines 974-975: no branch of the routing matched
UnknownMethod(req) ==
    /\ Answer(ErrorResponse(req.id, req.method, MethodNotFound,
                            <<"Method not found: ", req.method>>))
    /\ UNCHANGED <<srv, handlers, exec>>

\* one line is read and routed (main.py lines 902-921 and 930-992)
DispatchRead ==
    /\ srv.phase = "serving"
    /\ disp.pc = "read"
    /\ stdin # << >>
    /\ stdin' = Tail(stdin)
    /\ LET req == Head(stdin) IN
       CASE req.form = "eof" ->              \* lines 908-910 and 926-927
              /\ disp' = [disp EXCEPT !.pc = "stopped", !.is_running = FALSE]
              /\ UNCHANGED <<srv, handlers, stdout, exec>>
         [] req.form = "garbage" ->
              /\ Answer(ErrorResponse(NoId, req.method, ParseError, "Parse error"))
              /\ UNCHANGED <<srv, handlers, exec>>
         [] req.form = "array" ->
              /\ Answer(ErrorResponse(NoId, req.method, InvalidRequest,
                                      "Invalid Request"))
              /\ UNCHANGED <<srv, handlers, exec>>
         [] req.form = "object" /\ req.method = "" ->
              /\ Answer(ErrorResponse(req.id, req.method, InvalidRequest,
                                      "Missing method"))
              /\ UNCHANGED <<srv, handlers, exec>>
         [] req.form = "object" /\ req.method = "get_status" ->
              /\ Answer(Result(req.id, req.method, GetStatus))
              /\ UNCHANGED <<srv, handlers, exec>>
         [] req.form = "object" /\ req.method = "health_check" ->
              /\ Answer(Result(req.id, req.method, HealthCheck))
              /\ UNCHANGED <<srv, handlers, exec>>
         [] req.form = "object" /\ req.method = "unload_model" ->
              /\ srv' = UnloadModelRpc[1]
              /\ handlers' = UnloadModelRpc[2]
              /\ Answer(Result(req.id, req.method, UnloadModelRpc[3]))
              /\ UNCHANGED exec
         [] req.form = "object" /\ req.method = "load_model" ->
              /\ srv' = LoadModelRpc(req.model_name)[1]
              /\ handlers' = LoadModelRpc(req.model_name)[2]
              /\ Answer(Result(req.id, req.method, LoadModelRpc(req.model_name)[3]))
              /\ UNCHANGED exec
         [] req.form = "object" /\ req.method = "download_model" ->
              \E outcome \in DownloadOutcomes :
                 /\ handlers' = DownloadModelRpc(req.model_name, outcome)[1]
                 /\ Answer(Result(req.id, req.method,
                                   DownloadModelRpc(req.model_name, outcome)[2]))
                 /\ UNCHANGED <<srv, exec>>
         [] req.form = "object" /\ req.method = "shutdown" ->
              IF ShutdownRaises(req)
                THEN /\ Answer(ErrorResponse(req.id, req.method, InternalError,
                                  InternalErrorMessage(AttributeErrorText)))
                     /\ UNCHANGED <<srv, handlers, exec>>
                ELSE /\ srv' = [srv EXCEPT !.is_running = FALSE]
                     /\ handlers' =
                          IF srv.handler = 0 THEN handlers
                          ELSE [handlers EXCEPT ![srv.handler] = HandlerShutdown(@)]
                     /\ WriteReply(Result(req.id, req.method, [success |-> TRUE]))
                     /\ disp' = LoopTop([disp EXCEPT !.shutdown_task = TRUE])
                     /\ UNCHANGED exec
         [] req.form = "object" /\ req.method = "extract_keyphrases_keybert" ->
              /\ srv' = ExtractKeyphrasesRpc[1]
              /\ Answer(Result(req.id, req.method, ExtractKeyphrasesRpc[2]))
              /\ UNCHANGED <<handlers, exec>>
         [] req.form = "object"
              /\ req.method = "extract_keyphrases_keybert_batch" ->
              \E failing \in SUBSET (1..Len(req.texts)) :
                 /\ srv' = ExtractKeyphrasesBatchRpc(req.texts, failing)[1]
                 /\ Answer(Result(req.id, req.method,
                              ExtractKeyphrasesBatchRpc(req.texts, failing)[2]))
                 /\ UNCHANGED <<handlers, exec>>
         [] req.form = "object" /\ req.method = "generate_embeddings" ->
              /\ GenerateEmbeddingsRpc(req)
              /\ UNCHANGED srv
         [] OTHER -> UnknownMethod(req)
    /\ UNCHANGED <<env, nreq, waiting>>

\* _delayed_shutdown, run by the event loop while the dispatcher awaits a
\* line or a handler
DelayedShutdown ==
    /\ disp.shutdown_task
    /\ disp.pc # "stopped"
    /\ disp' = [disp EXCEPT !.is_running = FALSE, !.shutdown_task = FALSE]
    /\ UNCHANGED <<srv, handlers, env, io, exec>>

\* signal_handler of main(), installed once initialize() has returned
Signal ==
    /\ srv.phase = "serving"
    /\ disp.pc # "stopped"
    /\ disp.is_running
    /\ disp' = [disp EXCEPT !.is_running = FALSE]
    /\ UNCHANGED <<srv, handlers, env, io, exec>>

\* _ensure_model_loaded, lines 450-456: model_loaded_event.wait returned True
EnsureLoadedReturn ==
    /\ disp.pc = "ensure_wait"
    /\ handlers[srv.handler].model_loaded_event
    /\ IF /\ handlers[srv.handler].model_attr
          /\ handlers[srv.handler].model
          /\ handlers[srv.handler].model_loaded
         THEN Admit(srv.handler, disp.req)
         ELSE /\ WriteReply(Result(disp.req.id, disp.req.method,
                    EmbeddingResponse(FALSE, << >>, "Failed to load model")))
              /\ disp' = LoopTop(disp)
              /\ UNCHANGED <<handlers, exec>>
    /\ UNCHANGED <<srv, env, stdin, nreq, waiting>>

\* _ensure_model_loaded, lines 457-459: the 60 s wait timed out
EnsureLoadedTimeout ==
    /\ disp.pc = "ensure_wait"
    /\ ~handlers[srv.handler].model_loaded_event
    /\ WriteReply(Result(disp.req.id, disp.req.method,
          EmbeddingResponse(FALSE, << >>, "Failed to load model")))
    /\ disp' = LoopTop(disp)
    /\ UNCHANGED <<srv, handlers, env, stdin, nreq, waiting, exec>>

\* EmbeddingHandler.generate_embeddings, lines 531-564: the response built
\* from what _generate_embeddings_sync returned or raised
\* a failure response that carries the rows encoded before the exception
GenerateResponse_KeepsPartial(e) ==
    IF e.pc = "returned"
      THEN EmbeddingResponse(TRUE, e.embeddings, None)
      ELSE EmbeddingResponse(FALSE, e.embeddings_list, "Encoding failed")

GenerateResponse(e) ==
    IF e.pc = "returned"
      THEN EmbeddingResponse(TRUE, e.embeddings, None)
      ELSE EmbeddingResponse(FALSE, << >>, "Encoding failed")

\* the executor's future resolves; the reply is written
ReplyGenerate ==
    /\ disp.pc = "await_exec"
    /\ exec.pc \in {"returned", "raised"}
    /\ WriteReply(Result(disp.req.id, disp.req.method, GenerateResponse(exec)))
    /\ exec' = ExecIdle
    /\ disp' = LoopTop(disp)
    /\ UNCHANGED <<srv, handlers, env, stdin, nreq, waiting>>

(***************************************************************************)
(* The character stream of stdout.  print(text, flush=True) makes two      *)
(* write calls on sys.stdout, one for the text and one for the line end;   *)
(* no lock is held across them, so another thread's write calls can fall   *)
(* in between.                                                             *)
(***************************************************************************)
\* the threads that print: the dispatcher (replies, main.py line 921), the
\* loader thread and the keep-alive timer thread (_send_progress)
Writers == {"dispatcher", "loader", "timer"}

\* objects each thread prints in the stream specification
MaxPrints == 1

IdleWriters == [t \in Writers |-> [pc |-> "idle", printed |-> 0]]

NoOutput == wire = << >> /\ writers = IdleWriters

\* print(): the write call for json.dumps(...)
WriteText(t) ==
    /\ writers[t].pc = "idle"
    /\ writers[t].printed < MaxPrints
    /\ wire' = Append(wire, [kind |-> "text", writer |-> t,
                              n |-> writers[t].printed + 1])
    /\ writers' = [writers EXCEPT ![t].pc = "text_written"]
    /\ UNCHANGED <<srv, handlers, device, encoder, sd, tm, io, disp, exec>>

\* print(): the write call for the line end
WriteEnd(t) ==
    /\ writers[t].pc = "text_written"
    /\ wire' = Append(wire, [kind |-> "end", writer |-> t,
                              n |-> writers[t].printed + 1])
    /\ writers' = [writers EXCEPT ![t].pc = "idle", ![t].printed = @ + 1]
    /\ UNCHANGED <<srv, handlers, device, encoder, sd, tm, io, disp, exec>>

(***************************************************************************)
(* EmbeddingHandler.shutdown step by step.  The clock of this part counts  *)
(* half seconds, so that timeout_seconds * 0.5 is a whole number of ticks: *)
(* t seconds times 0.5 is t half seconds, and 5.0 seconds are 10.          *)
(***************************************************************************)
\* ShutdownRequest.timeout_seconds when the request names none
DefaultTimeoutSeconds == 30
\* "Max 5 seconds for thread shutdown", line 1093
MaxThreadWaitSeconds == 5
\* largest caller timeout of the shutdown specification, in seconds
MaxTimeout == 6

\* a thread timeout of the caller's whole timeout, without the 5 s cap
ThreadTimeout_Whole(timeout_seconds) == 2 * timeout_seconds

\* line 1093: thread_timeout = min(timeout_seconds * 0.5, 5.0), in half seconds
ThreadTimeout(timeout_seconds) ==
    Min(timeout_seconds, 2 * MaxThreadWaitSeconds)

\* no shutdown call has started; timeout_seconds is what it will be given
ShutdownIdle(timeout_seconds) ==
    [pc |-> "idle", h |-> 0, timeout_seconds |-> timeout_seconds,
     thread_timeout |-> 0, waited |-> 0, alive_after_join |-> FALSE,
     release |-> "none", returned |-> "none"]

\* lines 1083-1096: the flags, the timer, the thread timeout
ShutdownBegin(h) ==
    /\ sd.pc = "idle"
    /\ handlers' = [handlers EXCEPT ![h] =
                      CancelKeepAliveTimer([@ EXCEPT !.shutdown_requested = TRUE,
                                                     !.shutdown_event = TRUE,
                                                     !.is_running = FALSE])]
    /\ sd' = [sd EXCEPT !.h = h,
                        !.thread_timeout = ThreadTimeout(sd.timeout_seconds),
                        !.pc = IF handlers[h].processing_thread = "running"
                                 THEN "join" ELSE "release"]
    /\ UNCHANGED <<srv, device, encoder, wire, writers, tm, io, disp, exec>>

\* line 1098: half a second passes inside processing_thread.join(timeout)
ShutdownJoinWait ==
    /\ sd.pc = "join"
    /\ handlers[sd.h].processing_thread = "running"
    /\ sd.waited < sd.thread_timeout
    /\ sd' = [sd EXCEPT !.waited = @ + 1]
    /\ UNCHANGED <<srv, handlers, device, encoder, wire, writers, tm, io, disp, exec>>

\* lines 1098-1102: join returns, the thread has ended or the wait is over
ShutdownJoinReturn ==
    /\ sd.pc = "join"
    /\ \/ handlers[sd.h].processing_thread # "running"
       \/ sd.waited = sd.thread_timeout
    /\ sd' = [sd EXCEPT !.pc = "release",
                        !.alive_after_join =
                           handlers[sd.h].processing_thread = "running"]
    /\ UNCHANGED <<srv, handlers, device, encoder, wire, writers, tm, io, disp, exec>>

\* lines 1104-1122: the model is released, or releasing raises and the
\* exception is logged; the call returns True
ShutdownRelease ==
    /\ sd.pc = "release"
    /\ \E outcome \in {"released", "raised"} :
         IF handlers[sd.h].model
           THEN /\ handlers' = [handlers EXCEPT ![sd.h].model =
                                   (outcome = "raised")]
                /\ sd' = [sd EXCEPT !.pc = "done", !.release = outcome,
                                    !.returned = "True"]
           ELSE /\ outcome = "released"
                /\ handlers' = handlers
                /\ sd' = [sd EXCEPT !.pc = "done", !.returned = "True"]
    /\ UNCHANGED <<srv, device, encoder, wire, writers, tm, io, disp, exec>>

(***************************************************************************)
(* The keep-alive Timer objects of one handler, with the statements of     *)
(* _reset_keep_alive_timer as separate steps.  Thread 0 is the dispatcher  *)
(* thread; thread i > 0 is the thread of the i-th Timer, which runs        *)
(* _handle_keep_alive_timeout when that Timer fires.  No lock is held by   *)
(* the dispatcher thread in any of these steps.                            *)
(***************************************************************************)
\* Timer objects created in one run of the timer specification
MaxTimers == 4

DispatcherThread == 0
TimerThreads == 1..MaxTimers

\* timers[i] is the i-th Timer created: "pending", "cancelled" or "fired";
\* ref is self.keep_alive_timer (0 is None); state is self.state
NoTimers ==
    [timers |-> << >>, ref |-> 0, shutdown_requested |-> FALSE,
     state |-> "IDLE",
     pc |-> [t \in {DispatcherThread} \cup TimerThreads |->
               IF t = DispatcherThread THEN "idle" ELSE "none"]]

\* the handler after one immediate request: one Timer pending
OneTimerPending == [NoTimers EXCEPT !.timers = <<"pending">>, !.ref = 1]

\* Timer.cancel(): a Timer that has not fired will not fire
Cancelled(timers, ref) ==
    IF ref # 0 /\ timers[ref] = "pending"
      THEN [timers EXCEPT ![ref] = "cancelled"]
      ELSE timers

\* where thread t stands after its _reset_keep_alive_timer call
AfterReset(t) == IF t = DispatcherThread THEN "idle" ELSE "done"

\* state_lock is free: no Timer thread is inside the re-arm of line 1159,
\* which runs with the lock held
StateLockFree ==
    \A i \in TimerThreads :
       tm.pc[i] \notin {"reset_cancel", "reset_check", "reset_create"}

\* the i-th Timer fires: its thread starts _handle_keep_alive_timeout
TimerFires(i) ==
    /\ i \in DOMAIN tm.timers
    /\ tm.timers[i] = "pending"
    /\ tm' = [tm EXCEPT !.timers[i] = "fired", !.pc[i] = "check"]
    /\ UNCHANGED <<srv, handlers, device, encoder, wire, writers, sd, io, disp, exec>>

\* _handle_keep_alive_timeout, lines 1152-1163, under state_lock: busy
\* means re-arm, idle means UNLOADING (the queue is empty and
\* current_request is None on the request path)
CallbackCheck(i) ==
    /\ tm.pc[i] = "check"
    /\ StateLockFree
    /\ tm' = IF tm.state # "IDLE"
               THEN [tm EXCEPT !.pc[i] = "reset_cancel"]
               ELSE [tm EXCEPT !.state = "UNLOADING", !.pc[i] = "unloading"]
    /\ UNCHANGED <<srv, handlers, device, encoder, wire, writers, sd, io, disp, exec>>

\* _handle_keep_alive_timeout, lines 1165-1178: the model is unloaded, IDLE
CallbackUnloaded(i) ==
    /\ tm.pc[i] = "unloading"
    /\ StateLockFree
    /\ tm' = [tm EXCEPT !.state = "IDLE", !.pc[i] = "done"]
    /\ UNCHANGED <<srv, handlers, device, encoder, wire, writers, sd, io, disp, exec>>

\* generate_embeddings line 519 (an immediate request) or download_model
\* line 985: the dispatcher thread calls _reset_keep_alive_timer
DispatcherResets ==
    /\ tm.pc[DispatcherThread] = "idle"
    /\ Len(tm.timers) < MaxTimers
    /\ tm' = [tm EXCEPT !.pc[DispatcherThread] = "reset_cancel"]
    /\ UNCHANGED <<srv, handlers, device, encoder, wire, writers, sd, io, disp, exec>>

\* _reset_keep_alive_timer, lines 1128-1130: the existing Timer is cancelled
ResetCancel(t) ==
    /\ tm.pc[t] = "reset_cancel"
    /\ tm' = [tm EXCEPT !.timers = Cancelled(tm.timers, tm.ref), !.ref = 0,
                        !.pc[t] = "reset_check"]
    /\ UNCHANGED <<srv, handlers, device, encoder, wire, writers, sd, io, disp, exec>>

\* _reset_keep_alive_timer, lines 1133-1134: no new Timer if shutdown is
\* requested
ResetCheck(t) ==
    /\ tm.pc[t] = "reset_check"
    /\ tm' = [tm EXCEPT !.pc[t] = IF tm.shutdown_requested THEN AfterReset(t)
                                  ELSE "reset_create"]
    /\ UNCHANGED <<srv, handlers, device, encoder, wire, writers, sd, io, disp, exec>>

\* _reset_keep_alive_timer, lines 1137-1142: a new Timer is created,
\* assigned to self.keep_alive_timer and started
ResetCreate(t) ==
    /\ tm.pc[t] = "reset_create"
    /\ Len(tm.timers) < MaxTimers
    /\ tm' = [tm EXCEPT !.timers = Append(tm.timers, "pending"),
                        !.ref = Len(tm.timers) + 1,
                        !.pc[t] = AfterReset(t)]
    /\ UNCHANGED <<srv, handlers, device, encoder, wire, writers, sd, io, disp, exec>>

\* EmbeddingHandler.shutdown, lines 1084-1086, on the dispatcher thread
TimerShutdownFlag ==
    /\ tm.pc[DispatcherThread] = "idle"
    /\ tm' = [tm EXCEPT !.shutdown_requested = TRUE,
                        !.pc[DispatcherThread] = "shutdown_cancel"]
    /\ UNCHANGED <<srv, handlers, device, encoder, wire, writers, sd, io, disp, exec>>

\* EmbeddingHandler.shutdown, line 1090: _cancel_keep_alive_timer
TimerShutdownCancel ==
    /\ tm.pc[DispatcherThread] = "shutdown_cancel"
    /\ tm' = [tm EXCEPT !.timers = Cancelled(tm.timers, tm.ref), !.ref = 0,
                        !.pc[DispatcherThread] = "shut_down"]
    /\ UNCHANGED <<srv, handlers, device, encoder, wire, writers, sd, io, disp, exec>>

(***************************************************************************)
(* The worker specification.                                               *)
(***************************************************************************)
SysDevices == {"mps"}
ArbitraryFaults == [kind |-> "arbitrary", k |-> 0]

Init ==
    /\ srv \in {ServerInit(m) : m \in {None} \cup SysModels}
    /\ handlers = << >>
    /\ device \in SysDevices
    /\ encoder = ArbitraryFaults
    /\ stdin = << >>
    /\ stdout = << >>
    /\ disp = DispatcherIdle
    /\ exec = ExecIdle
    /\ nreq = 0
    /\ waiting = {}
    /\ NoOutput
    /\ sd = ShutdownIdle(DefaultTimeoutSeconds)
    /\ tm = NoTimers

Next ==
    \/ ServerInitialize
    \/ \E req \in RequestLines(nreq + 1) : Submit(req)
    \/ DispatchRead
    \/ EnsureLoadedReturn
    \/ EnsureLoadedTimeout
    \/ ExecAttempt
    \/ ExecFallback
    \/ ReplyGenerate
    \/ \E h \in DOMAIN handlers : LoaderLoad(h)
    \/ \E h \in DOMAIN handlers : LoaderSetEvent(h)
    \/ \E h \in DOMAIN handlers : LoaderSetLoaded(h)
    \/ \E h \in DOMAIN handlers : ProcessingLoopStep(h)
    \/ \E h \in DOMAIN handlers : KeepAliveTimeout(h)
    \/ \E h \in DOMAIN handlers : KeepAliveUnload(h)
    \/ \E h \in DOMAIN handlers : KeepAliveFinish(h)
    \/ Tick

Spec == Init /\ [][Next]_vars

(***************************************************************************)
(* The encoder specification: the worker has started with a model, the     *)
(* loader thread has finished, and the parent has written one              *)
(* generate_embeddings line.  The request, the device, the model and the   *)
(* encoder's faults range over larger sets than in Spec.                   *)
(***************************************************************************)
\* the encoder raises OOM exactly when a call receives more than k strings
ThresholdFaults(k) == [kind |-> "threshold", k |-> k]

\* the handler after initialize() and a successful _load_model_sync
LoadedHandler(model_name, dev) ==
    [EmbeddingHandlerInit(model_name) EXCEPT
        !.optimal_batch_size = CalculateOptimalBatchSize(dev, model_name),
        !.processing_thread = "running",
        !.is_running = TRUE,
        !.model = TRUE,
        !.model_loaded_event = TRUE,
        !.model_loaded = TRUE,
        !.semantic_handler = TRUE,
        !.loader = "done"]

\* the server after EmbeddingRPCServer.initialize() succeeded for model_name
ServingServer(model_name) ==
    [ServerInit(model_name) EXCEPT
        !.phase = "serving", !.state = "ready", !.loading_progress = 100,
        !.handler = 1, !.is_running = TRUE]

InitEnc ==
    /\ device \in Devices
    /\ encoder \in {ArbitraryFaults} \cup {ThresholdFaults(k) : k \in 1..MaxK}
    /\ \E m \in Models :
         /\ srv = ServingServer(m)
         /\ handlers = <<LoadedHandler(m, device)>>
    /\ \E t \in TextLists(MaxTexts, LongLens), imm \in BOOLEAN :
         stdin = <<Request(1, "generate_embeddings", t, imm, None)>>
    /\ stdout = << >>
    /\ disp = DispatcherIdle
    /\ exec = ExecIdle
    /\ nreq = 1
    /\ waiting = {}
    /\ NoOutput
    /\ sd = ShutdownIdle(DefaultTimeoutSeconds)
    /\ tm = NoTimers

NextEnc ==
    \/ DispatchRead
    \/ ExecAttempt
    \/ ExecFallback
    \/ ReplyGenerate

SpecEnc == InitEnc /\ [][NextEnc]_vars

(***************************************************************************)
(* The dispatcher specification: the whole worker again, with the lines    *)
(* the parent may write ranging over malformed lines, requests without an  *)
(* id, unknown methods, bad params and shutdown, and with signals.         *)
(***************************************************************************)
Line(form, id, method, params) ==
    [Request(id, method, << >>, FALSE, None) EXCEPT
        !.form = form, !.params = params]

RpcModel == "BAAI/bge-m3"
\* a model id that is not in the registry
UnlistedModel == "all-MiniLM-L6-v2"

\* the lines of the dispatcher specification; i is the id of those with one
RpcLines(i) ==
    {Line("garbage", NoId, "", "dict"), Line("array", NoId, "", "dict"),
     Line("eof", NoId, "", "dict")}
      \cup {Line("object", id, m, "dict") :
               id \in {NoId, i},
               m \in {"", "bogus", "get_status", "health_check", "unload_model"}}
      \cup {Line("object", i, "shutdown", p) : p \in {"dict", "list"}}
      \cup {Line("object", i, "extract_keyphrases_keybert", "dict")}
      \cup {[Request(id, "generate_embeddings", TextList(1, 0, ShortLen), TRUE, None)
               EXCEPT !.params = p] :
               id \in {NoId, i}, p \in {"dict", "no_texts"}}
      \cup {Request(i, "extract_keyphrases_keybert_batch", t, FALSE, None) :
               t \in {<< >>, TextList(2, 0, ShortLen)}}
      \cup {Request(i, m, << >>, FALSE, n) :
               m \in {"load_model", "download_model"},
               n \in {RpcModel, UnlistedModel}}

InitRpc ==
    /\ srv \in {ServerInit(m) : m \in {None, RpcModel}}
    /\ handlers = << >>
    /\ device \in SysDevices
    /\ encoder = ArbitraryFaults
    /\ stdin = << >>
    /\ stdout = << >>
    /\ disp = DispatcherIdle
    /\ exec = ExecIdle
    /\ nreq = 0
    /\ waiting = {}
    /\ NoOutput
    /\ sd = ShutdownIdle(DefaultTimeoutSeconds)
    /\ tm = NoTimers

NextRpc ==
    \/ ServerInitialize
    \/ \E req \in RpcLines(nreq + 1) : Submit(req)
    \/ DispatchRead
    \/ EnsureLoadedReturn
    \/ EnsureLoadedTimeout
    \/ ExecAttempt
    \/ ExecFallback
    \/ ReplyGenerate
    \/ DelayedShutdown
    \/ Signal
    \/ \E h \in DOMAIN handlers : LoaderLoad(h)
    \/ \E h \in DOMAIN handlers : LoaderSetEvent(h)
    \/ \E h \in DOMAIN handlers : LoaderSetLoaded(h)
    \/ \E h \in DOMAIN handlers : ProcessingLoopStep(h)
    \/ \E h \in DOMAIN handlers : KeepAliveTimeout(h)
    \/ \E h \in DOMAIN handlers : KeepAliveUnload(h)
    \/ \E h \in DOMAIN handlers : KeepAliveFinish(h)
    \/ Tick

SpecRpc == InitRpc /\ [][NextRpc]_vars

\* every thread and task of the worker that can take a step eventually
\* does; the parent and the signals are free
FairSpecRpc ==
    /\ SpecRpc
    /\ WF_vars(ServerInitialize)
    /\ WF_vars(DispatchRead)
    /\ WF_vars(EnsureLoadedReturn)
    /\ WF_vars(EnsureLoadedTimeout)
    /\ WF_vars(ExecAttempt)
    /\ WF_vars(ExecFallback)
    /\ WF_vars(ReplyGenerate)
    /\ WF_vars(DelayedShutdown)
    /\ WF_vars(\E h \in DOMAIN handlers : LoaderLoad(h))
    /\ WF_vars(\E h \in DOMAIN handlers : LoaderSetEvent(h))
    /\ WF_vars(\E h \in DOMAIN handlers : LoaderSetLoaded(h))
    /\ WF_vars(\E h \in DOMAIN handlers : ProcessingLoopStep(h))
    /\ WF_vars(\E h \in DOMAIN handlers : KeepAliveTimeout(h))
    /\ WF_vars(\E h \in DOMAIN handlers : KeepAliveUnload(h))
    /\ WF_vars(\E h \in DOMAIN handlers : KeepAliveFinish(h))
    /\ WF_vars(Tick)

(***************************************************************************)
(* The stream specification: a worker started with a model, its loader     *)
(* thread running, its dispatcher answering requests and a keep-alive      *)
(* timer thread, each printing its objects.                                *)
(***************************************************************************)
InitOut ==
    /\ device \in SysDevices
    /\ encoder = ArbitraryFaults
    /\ srv = ServingServer(RpcModel)
    /\ handlers = <<HandlerInitialize(EmbeddingHandlerInit(RpcModel))>>
    /\ stdin = << >>
    /\ stdout = << >>
    /\ disp = DispatcherIdle
    /\ exec = ExecIdle
    /\ nreq = 0
    /\ waiting = {}
    /\ NoOutput
    /\ sd = ShutdownIdle(DefaultTimeoutSeconds)
    /\ tm = NoTimers

NextOut == \E t \in Writers : WriteText(t) \/ WriteEnd(t)

SpecOut == InitOut /\ [][NextOut]_vars

(***************************************************************************)
(* The queue specification: a loaded handler whose request queue holds     *)
(* items, inside or outside a crawling pause, and its processing loop.     *)
(* arrival numbers the items in the order they were put; the clock that    *)
(* stamps them never runs backwards but may give two arrivals one reading. *)
(* Among items neither of which is less than the other, PriorityQueue.get  *)
(* returns whichever the heap holds first (QueueHeads).                    *)
(***************************************************************************)
\* items put into the queue
MaxQueue == 3
\* readings of the clock that stamps them
MaxStamp == 2

\* QueuedRequest(priority, timestamp, request, future)
QueueItem(arrival, priority, timestamp) ==
    [priority |-> priority, timestamp |-> timestamp, arrival |-> arrival,
     request |-> [texts |-> TextList(1, 0, ShortLen), immediate |-> priority = 0]]

Queues ==
    {{QueueItem(a, prio[a], stamp[a]) : a \in 1..n} :
        <<n, prio, stamp>> \in
          {<<n, prio, stamp>> \in
             UNION {{n} \X [1..n -> {0, 1}] \X [1..n -> 1..MaxStamp] :
                      n \in 1..MaxQueue} :
             \A a, b \in 1..n : a < b => stamp[a] <= stamp[b]}}

InitQueue ==
    /\ device \in SysDevices
    /\ encoder = ArbitraryFaults
    /\ srv = ServingServer(RpcModel)
    /\ \E q \in Queues, paused \in BOOLEAN :
         handlers = <<[LoadedHandler(RpcModel, device) EXCEPT
                         !.request_queue = q,
                         !.is_batch_paused = paused,
                         !.since_immediate =
                            IF paused THEN 0 ELSE CrawlingPauseTicks]>>
    /\ stdin = << >>
    /\ stdout = << >>
    /\ disp = DispatcherIdle
    /\ exec = ExecIdle
    /\ nreq = 0
    /\ waiting = {}
    /\ NoOutput
    /\ sd = ShutdownIdle(DefaultTimeoutSeconds)
    /\ tm = NoTimers

NextQueue ==
    \/ \E h \in DOMAIN handlers : ProcessingLoopStep(h)
    \/ Tick

SpecQueue == InitQueue /\ [][NextQueue]_vars

(***************************************************************************)
(* The shutdown specification: a loaded handler, its timer pending or not, *)
(* its processing loop running, and one shutdown call with a caller        *)
(* timeout of 0..MaxTimeout seconds.                                       *)
(***************************************************************************)
InitShutdown ==
    /\ device \in SysDevices
    /\ encoder = ArbitraryFaults
    /\ srv = ServingServer(RpcModel)
    /\ \E hr \in {LoadedHandler(RpcModel, device),
                   ResetKeepAliveTimer(LoadedHandler(RpcModel, device)),
                   [LoadedHandler(RpcModel, device) EXCEPT !.model = FALSE,
                       !.model_loaded = FALSE, !.model_loaded_event = FALSE]} :
         handlers = <<hr>>
    /\ stdin = << >>
    /\ stdout = << >>
    /\ disp = DispatcherIdle
    /\ exec = ExecIdle
    /\ nreq = 0
    /\ waiting = {}
    /\ wire = << >> /\ writers = IdleWriters
    /\ \E t \in 0..MaxTimeout : sd = ShutdownIdle(t)
    /\ tm = NoTimers

NextShutdown ==
    \/ \E h \in DOMAIN handlers : ShutdownBegin(h)
    \/ ShutdownJoinWait
    \/ ShutdownJoinReturn
    \/ ShutdownRelease
    \/ \E h \in DOMAIN handlers : ProcessingLoopStep(h)

SpecShutdown == InitShutdown /\ [][NextShutdown]_vars

(***************************************************************************)
(* The timer specification: a loaded handler with one Timer pending, the   *)
(* dispatcher thread serving immediate requests and then a shutdown, and   *)
(* the thread of every Timer that fires.                                   *)
(***************************************************************************)
InitTimer ==
    /\ device \in SysDevices
    /\ encoder = ArbitraryFaults
    /\ srv = ServingServer(RpcModel)
    /\ handlers = <<ResetKeepAliveTimer(LoadedHandler(RpcModel, device))>>
    /\ stdin = << >>
    /\ stdout = << >>
    /\ disp = DispatcherIdle
    /\ exec = ExecIdle
    /\ nreq = 0
    /\ waiting = {}
    /\ NoOutput
    /\ sd = ShutdownIdle(DefaultTimeoutSeconds)
    /\ tm = OneTimerPending

NextTimer ==
    \/ \E i \in TimerThreads : TimerFires(i)
    \/ \E i \in TimerThreads : CallbackCheck(i)
    \/ \E i \in TimerThreads : CallbackUnloaded(i)
    \/ DispatcherResets
    \/ \E t \in {DispatcherThread} \cup TimerThreads : ResetCancel(t)
    \/ \E t \in {DispatcherThread} \cup TimerThreads : ResetCheck(t)
    \/ \E t \in {DispatcherThread} \cup TimerThreads : ResetCreate(t)
    \/ TimerShutdownFlag
    \/ TimerShutdownCancel

SpecTimer == InitTimer /\ [][NextTimer]_vars

(***************************************************************************)
(* Properties of generate_embeddings.                                      *)
(***************************************************************************)
\* _generate_embeddings_sync has finished and generate_embeddings is about
\* to build the response of the request the dispatcher awaits
ResponseReady == disp.pc = "await_exec" /\ exec.pc \in {"returned", "raised"}

\* the vectors of the request's (truncated) texts, one per text, in order
ExpectedEmbeddings(req, model_name) ==
    EncodeRows(ProcessedTexts(req.texts, model_name), model_name)

\* C1: a successful generate_embeddings response holds exactly |T| vectors,
\* the i-th being the encoding of the i-th (possibly truncated) input,
\* whatever sequence of OOM failures the encoder produced.
C1_SuccessHoldsEveryVector ==
    ResponseReady /\ GenerateResponse(exec).success
      => GenerateResponse(exec).embeddings =
           ExpectedEmbeddings(disp.req, handlers[exec.h].model_name)

\* C2: when the encoder raises OOM exactly on calls of more than k inputs
\* (k >= 1), every request still ends in a success response with |T|
\* vectors in which each input is encoded exactly once.
C2_ThresholdOomStillEncodesAll ==
    ResponseReady /\ encoder.kind = "threshold"
      => /\ GenerateResponse(exec).success
         /\ Len(GenerateResponse(exec).embeddings) = Len(disp.req.texts)
         /\ \A t \in 1..Len(disp.req.texts) :
              Cardinality({j \in 1..Len(GenerateResponse(exec).embeddings) :
                 GenerateResponse(exec).embeddings[j].of.id = t}) = 1

(***************************************************************************)
(* Properties of scheduling.                                               *)
(***************************************************************************)
\* an encode call is executing in the _generate_embeddings_sync call e
Executing(e) == e.pc \in {"attempt", "fallback"}

\* every _generate_embeddings_sync call in the process: the executor's and
\* each handler's processing-loop thread's
EncodeCalls == {exec} \cup {handlers[h].loop_exec : h \in DOMAIN handlers}

\* C3: no batch request begins executing strictly inside the crawling pause
\* window that the last immediate request opened, whether it is served
\* through generate_embeddings or by the processing loop.
C3_NoBatchInsidePauseWindow ==
    \A e \in EncodeCalls :
       Executing(e) /\ ~e.immediate
         => ~(0 < e.begin_since /\ e.begin_since < CrawlingPauseTicks)

\* C4: an immediate request submitted while batch requests have not started
\* is replied to before each of those batch requests gets its vectors.
C4_ImmediateRepliedFirst ==
    LET
        \* the reply to request a was written before the reply to request b
        RepliedBefore(a, b) ==
            \E j, k \in 1..Len(stdout) :
               j < k /\ stdout[j].id = a /\ stdout[k].id = b
        \* the request with this id was executed and its vectors have been written
        Replied(id) ==
            \E j \in 1..Len(stdout) :
               /\ stdout[j].id = id
               /\ stdout[j].kind = "result"
               /\ stdout[j].body.success
    IN
    \A p \in waiting : Replied(p[1]) => RepliedBefore(p[2], p[1])

\* C5: at most one encode call is executing at any moment, counting the
\* executor thread and every processing-loop thread.
C5_AtMostOneEncode ==
    LET
        \* the encode calls executing right now, by thread
        ExecutingEncodes ==
            (IF Executing(exec) THEN {<<"executor", exec.h>>} ELSE {})
              \cup {<<"loop", h>> : h \in {h \in DOMAIN handlers :
                                              Executing(handlers[h].loop_exec)}}
    IN
    Cardinality(ExecutingEncodes) <= 1

\* an encode is executing for one request while the loop thread runs and
\* another request line waits in stdin
C5_Witness ==
    /\ Executing(exec)
    /\ handlers[exec.h].processing_thread = "running"
    /\ stdin # << >>

(***************************************************************************)
(* Properties of the model lifecycle.                                      *)
(***************************************************************************)
\* the handlers that hold a model, discarded ones included
ResidentModels == {h \in DOMAIN handlers : handlers[h].model}

\* C6: the number of resident models is 0 when the reported state is idle,
\* exactly 1 when it is ready, and never more than 1.
C6_SingleResidentModel ==
    srv.phase = "serving"
      => /\ Cardinality(ResidentModels) <= 1
         /\ GetStatus.state = "idle" => Cardinality(ResidentModels) = 0
         /\ GetStatus.state = "ready" => Cardinality(ResidentModels) = 1

\* this step is the dispatcher serving a load_model line
LoadModelServed ==
    /\ srv.phase = "serving"
    /\ disp.pc = "read"
    /\ stdin # << >>
    /\ Head(stdin).method = "load_model"
    /\ stdin' = Tail(stdin)

\* model m is loaded and the next line asks for another model
SwapRequested ==
    /\ srv.handler # 0
    /\ handlers[srv.handler].model
    /\ handlers[srv.handler].model_loaded
    /\ stdin # << >>
    /\ Head(stdin).model_name # srv.model_name

\* C7: a load_model(n) served while m # n is loaded ends in ready with
\* current model n, or in error with no model resident and no current
\* model; m is not resident afterwards.
C7_SwapAtomicity ==
    [][LoadModelServed /\ SwapRequested
         => /\ \/ srv'.state = "ready" /\ srv'.model_name = Head(stdin).model_name
               \/ /\ srv'.state = "error"
                  /\ ResidentModels' = {}
                  /\ srv'.model_name = None
            /\ ~handlers'[srv.handler].model]_vars

\* C8: with model A loaded, load_model(B) returns success and leaves the
\* worker ready with current model B.
C8_HotSwapSucceeds ==
    [][LoadModelServed /\ SwapRequested
         => /\ stdout'[Len(stdout')].body.success
            /\ srv'.state = "ready"
            /\ srv'.model_name = Head(stdin).model_name]_vars

\* the step releases handler h's model on the idle-unload path
IdleUnloadReleases(h) ==
    /\ handlers[h].timeout = "unloading"
    /\ handlers'[h].timeout = "deleted"
    /\ handlers[h].model
    /\ ~handlers'[h].model

\* C10: the idle-unload path never releases the model while an encode
\* started by generate_embeddings or by the processing loop is executing.
C10_NoUnloadDuringEncode ==
    [][\A h \in DOMAIN handlers :
          IdleUnloadReleases(h)
            => /\ ~(Executing(exec) /\ exec.h = h)
               /\ ~Executing(handlers[h].loop_exec)]_vars

(***************************************************************************)
(* Idle unload under fair scheduling: every thread of the worker that can  *)
(* take a step eventually does, and the clock keeps ticking.  The parent   *)
(* is free never to write another line.                                    *)
(***************************************************************************)
FairSpec ==
    /\ Spec
    /\ WF_vars(ServerInitialize)
    /\ WF_vars(DispatchRead)
    /\ WF_vars(EnsureLoadedReturn)
    /\ WF_vars(EnsureLoadedTimeout)
    /\ WF_vars(ExecAttempt)
    /\ WF_vars(ExecFallback)
    /\ WF_vars(ReplyGenerate)
    /\ WF_vars(\E h \in DOMAIN handlers : LoaderLoad(h))
    /\ WF_vars(\E h \in DOMAIN handlers : LoaderSetEvent(h))
    /\ WF_vars(\E h \in DOMAIN handlers : LoaderSetLoaded(h))
    /\ WF_vars(\E h \in DOMAIN handlers : ProcessingLoopStep(h))
    /\ WF_vars(\E h \in DOMAIN handlers : KeepAliveTimeout(h))
    /\ WF_vars(\E h \in DOMAIN handlers : KeepAliveUnload(h))
    /\ WF_vars(\E h \in DOMAIN handlers : KeepAliveFinish(h))
    /\ WF_vars(Tick)

\* a model is loaded, the worker reports ready, nothing is queued or running
LoadedAndQuiet ==
    /\ srv.phase = "serving"
    /\ srv.handler # 0
    /\ handlers[srv.handler].model
    /\ handlers[srv.handler].model_loaded
    /\ handlers[srv.handler].request_queue = {}
    /\ GetStatus.state = "ready"
    /\ stdin = << >>
    /\ disp.pc = "read"

\* C9: once a model is loaded and the worker is ready with nothing to do,
\* then unless another request line arrives the model is eventually
\* unloaded and the reported state becomes idle.
C9_IdleUnloadLiveness ==
    [](LoadedAndQuiet => <>((ResidentModels = {} /\ GetStatus.state = "idle") \/ stdin # << >>))

(***************************************************************************)
(* Properties of the lifecycle state.                                      *)
(***************************************************************************)
\* C11: for the whole duration of every encode, whether started by
\* generate_embeddings or by the processing loop, the lifecycle state of the
\* handler that encodes is WORKING.
C11_WorkingWhileEncoding ==
    \A e \in EncodeCalls : Executing(e) => handlers[e.h].state = "WORKING"

\* C12: a keep-alive timer is pending only on the current handler, while the
\* worker is ready with its model loaded, the queue is empty and no request
\* is executing.
C12_TimerOnlyWhenReadyAndIdle ==
    \A h \in DOMAIN handlers :
       TimerPending(handlers[h])
         => /\ srv.handler = h
            /\ srv.state = "ready"
            /\ handlers[h].model /\ handlers[h].model_loaded
            /\ handlers[h].state = "IDLE"
            /\ handlers[h].request_queue = {}
            /\ ~(Executing(exec) /\ exec.h = h)
            /\ ~Executing(handlers[h].loop_exec)

\* C13: when the model loader has failed the worker does not report ready:
\* its state is error.
C13_LoaderFailureGivesError ==
    LET
        \* the background loader of the current handler has failed
        LoadFailed ==
            srv.handler # 0 /\ handlers[srv.handler].loader = "failed"
    IN
    srv.phase = "serving" /\ LoadFailed => GetStatus.state = "error"

\* C14: whenever get_status reports ready, or health_check reports
\* model_loaded, the loader has loaded the model and the encoder is resident
\* in the current handler.
C14_ReadyOnlyAfterLoad ==
    srv.phase = "serving" /\ (GetStatus.state = "ready" \/ HealthCheck.model_loaded)
      => /\ srv.handler # 0
         /\ handlers[srv.handler].model
         /\ handlers[srv.handler].model_loaded

\* the step in which the dispatcher reads and serves a line of this method
Serves(method) ==
    /\ srv.phase = "serving"
    /\ disp.pc = "read"
    /\ stdin # << >>
    /\ Head(stdin).method = method
    /\ stdin' = Tail(stdin)

\* C15: an unload_model RPC served in any lifecycle state other than idle,
\* ERROR included, whose release step does not raise leaves the lifecycle
\* state idle and the model id null.
C15_UnloadResetsEveryState ==
    [][Serves("unload_model") /\ srv.state # "idle" /\ ~ReleaseRaises
         => srv'.state = "idle" /\ srv'.model_name = None]_vars

\* unload_model was served after a load_model that left the state ERROR
C15_Witness ==
    /\ Len(stdout) = 2
    /\ stdout[1].method = "load_model" /\ stdout[1].body.state = "error"
    /\ stdout[2].method = "unload_model" /\ stdout[2].body.success
    /\ srv.state = "idle" /\ srv.model_name = None

\* C16: when releasing the model raises during an unload, the lifecycle
\* state returns to idle and the worker keeps running: an unload_model RPC
\* whose release raises leaves the server idle, and an idle-triggered unload
\* whose release raises leaves the handler IDLE, running and not shut down.
C16_FailedReleaseReturnsToIdle ==
    [][/\ Serves("unload_model") /\ srv.state # "idle" /\ ReleaseRaises
            => srv'.state = "idle"
       /\ \A h \in DOMAIN handlers :
            handlers[h].timeout = "unloading" /\ ~handlers[h].model_attr
              /\ handlers'[h].timeout # "unloading"
              => /\ handlers'[h].state = "IDLE"
                 /\ ~handlers'[h].shutdown_requested]_vars

(***************************************************************************)
(* Properties of the dispatcher.                                           *)
(***************************************************************************)
\* the ids request lines may carry
Ids == 1..MaxRequests

\* the number of replies written with this id
RepliesTo(i) == Cardinality({j \in 1..Len(stdout) : stdout[j].id = i})

\* the step in which the dispatcher reads the request line with this id
ReadsLine(i) ==
    /\ srv.phase = "serving"
    /\ disp.pc = "read"
    /\ stdin # << >>
    /\ Head(stdin).form = "object"
    /\ Head(stdin).id = i
    /\ stdin' = Tail(stdin)

\* the dispatcher awaits the handler of the request with this id
Handling(i) == disp.pc \in {"ensure_wait", "await_exec"} /\ disp.req.id = i

\* C17: for every request line carrying an id that the dispatcher reads, it
\* eventually writes exactly one reply, and that reply carries the request's
\* id, whether the handler succeeds, fails or raises: reading the line
\* writes the reply or starts the handler, a reply with the id is written
\* only once and only for the line being handled, and a started handler is
\* eventually answered.
C17_OneReplyPerLineRead ==
    /\ [][\A i \in Ids :
            /\ ReadsLine(i) =>
                  /\ RepliesTo(i) = 0
                  /\ (RepliesTo(i)' = 1 /\ ~Handling(i)') \/ (RepliesTo(i)' = 0 /\ Handling(i)')
            /\ RepliesTo(i)' # RepliesTo(i) =>
                  /\ RepliesTo(i) = 0 /\ RepliesTo(i)' = 1
                  /\ ReadsLine(i) \/ Handling(i)
                  /\ ~Handling(i)'
            /\ Handling(i) /\ ~Handling(i)' => RepliesTo(i)' = 1]_vars
    /\ \A i \in Ids : Handling(i) ~> RepliesTo(i) = 1

\* two lines were read: the handler of the first failed, that of the second
\* raised, and each got its reply
C17_Witness ==
    /\ Len(stdout) = 2
    /\ stdout[1].id = 1 /\ stdout[1].method = "generate_embeddings"
    /\ stdout[1].kind = "result" /\ ~stdout[1].body.success
    /\ stdout[2].id = 2 /\ stdout[2].kind = "error"
    /\ stdout[2].body.code = InternalError

\* C17 as stated: every request line carrying an id, read or not, eventually
\* has exactly one reply with its id.
C17_EveryLineReplied ==
    \A i \in Ids : (\E j \in 1..Len(stdin) : stdin[j].form = "object" /\ stdin[j].id = i) ~> RepliesTo(i) = 1

\* C18: a request object with a method and no id produces no reply line:
\* no step that serves it writes to stdout.
C18_NotificationGetsNoReply ==
    [][LET
           \* the dispatcher reads, or awaits the handler of, a request object that
           \* names a method and has no id
           ServesNotification ==
               \/ /\ srv.phase = "serving" /\ disp.pc = "read" /\ stdin # << >>
                  /\ Head(stdin).form = "object"
                  /\ Head(stdin).method # "" /\ Head(stdin).id = NoId
                  /\ stdin' = Tail(stdin)
               \/ /\ disp.pc \in {"ensure_wait", "await_exec"}
                  /\ disp.req.id = NoId
       IN
       ServesNotification => stdout' = stdout]_vars

\* the reply written by this step
NewReply == stdout'[Len(stdout')]

\* the step in which the dispatcher reads a line
ReadsAnyLine ==
    /\ srv.phase = "serving" /\ disp.pc = "read" /\ stdin # << >>
    /\ stdin' = Tail(stdin)

AdmissionError(req) ==
    \/ req.params # "dict"
    \/ srv.handler = 0
    \/ ~srv.is_running

\* C20: a generate_embeddings request with bad params, or read while the
\* server has no handler or is not running, is answered with a JSON-RPC
\* error object ("error" member), not with a result.
C20_AdmissionErrorsAreErrorObjects ==
    [][Serves("generate_embeddings") /\ Head(stdin).form = "object"
         /\ AdmissionError(Head(stdin))
         => /\ stdout' = Append(stdout, NewReply)
            /\ NewReply.kind = "error"]_vars

(***************************************************************************)
(* Properties of failure reporting.                                        *)
(***************************************************************************)
\* the generate_embeddings responses written so far
GenerateReplies ==
    {stdout[j].body : j \in {k \in 1..Len(stdout) :
        stdout[k].kind = "result" /\ stdout[k].method = "generate_embeddings"}}

\* C21: every generate_embeddings response with success false has an empty
\* embeddings list and an error that is not null, and every response with
\* success true has a null error.
C21_FailureResponseShape ==
    \A r \in GenerateReplies :
       IF r.success THEN r.error = None
                    ELSE r.embeddings = << >> /\ r.error # None

\* one request failed after the encoder had returned rows for a first
\* slice, another one succeeded
C21_Witness ==
    /\ \E r \in GenerateReplies : ~r.success /\ r.error = "Encoding failed"
    /\ \E r \in GenerateReplies : r.success /\ Len(r.embeddings) = 2

\* C22: an OOM reaches the except branch of the encode path only at batch
\* size 1, and a request whose encoder raised OOM at batch size 1 is
\* answered with an encode failure (success false, an error string).
C22_OomSurfacesOnlyAtOne ==
    ResponseReady /\ (exec.encode_error = "oom")
      => /\ exec.current_batch_size = 1
         /\ ~GenerateResponse(exec).success
         /\ GenerateResponse(exec).error # None

\* the accelerator encode path of the awaited request raised an exception
\* that is not an OOM, and the CPU fallback is about to run
NonOomFallback == exec.pc = "fallback" /\ exec.encode_error \in {"err", "vstack"}

\* C23: after a non-OOM exception of the accelerator path the whole
\* truncated text list is encoded on CPU in one call, once: if the call
\* succeeds the response is a success with one vector per text, if it
\* raises the response is a failure; the device and the batch size of the
\* handler are unchanged, and the next admitted request starts on the
\* accelerator path.
C23_CpuFallbackOnce ==
    [][/\ NonOomFallback /\ exec' # exec =>
            /\ exec'.pc \in {"returned", "raised"}
            /\ exec'.pc = "returned" =>
                  /\ GenerateResponse(exec').success
                  /\ GenerateResponse(exec').embeddings =
                        ExpectedEmbeddings(disp.req, handlers[exec.h].model_name)
                  /\ Len(GenerateResponse(exec').embeddings) = Len(disp.req.texts)
            /\ exec'.pc = "raised" => ~GenerateResponse(exec').success
            /\ device' = device
            /\ handlers'[exec.h].optimal_batch_size = handlers[exec.h].optimal_batch_size
       /\ exec.pc = "idle" /\ exec'.pc # "idle" /\ handlers[exec'.h].model =>
            exec'.pc = "attempt"]_vars

\* a first slice was encoded, a later call raised a non-OOM exception, and
\* the CPU fallback returned the rows of both texts
C23_Witness ==
    /\ exec.pc = "returned"
    /\ exec.encode_error = "err"
    /\ Len(exec.embeddings_list) = 1
    /\ Len(exec.embeddings) = 2

(***************************************************************************)
(* Properties of shutdown and startup.                                     *)
(***************************************************************************)
\* the reply of a handled shutdown RPC has been written
ShutdownReplied ==
    \E j \in 1..Len(stdout) :
       stdout[j].method = "shutdown" /\ stdout[j].kind = "result"

\* the read loop of StdioJSONRPCServer.start has ended
LoopStopped == disp.pc = "stopped"

\* C24: once the reply of a shutdown RPC is written the read loop ends,
\* whether or not the parent writes another line.
C24_ShutdownEndsTheLoop == ShutdownReplied ~> LoopStopped

\* C25: whichever of a signal, EOF on stdin or a shutdown RPC ended the read
\* loop, when the loop has ended the handler's shutdown event is set, its
\* keep-alive timer is cancelled and its model is released.
C25_EveryExitDrains ==
    LET
        \* EmbeddingHandler.shutdown has done its work on this handler: the
        \* processing loop is told to exit, no timer is pending, no model is held
        Drained(hr) ==
            /\ hr.shutdown_event
            /\ ~TimerPending(hr)
            /\ ~hr.model
    IN
    LoopStopped /\ srv.handler # 0 => Drained(handlers[srv.handler])

\* C26: once a shutdown RPC has been handled, every generate_embeddings or
\* key-phrase request that is read is rejected at once: the reply reports a
\* failure and no encode is started.
C26_NoAdmissionAfterShutdown ==
    [][LET
           \* the dispatcher reads a request for work: embeddings or key phrases
           ReadsWork ==
               /\ ReadsAnyLine
               /\ Head(stdin).form = "object"
               /\ Head(stdin).method \in {"generate_embeddings", "extract_keyphrases_keybert"}
       IN
       ShutdownReplied /\ ReadsWork =>
         /\ stdout' = Append(stdout, NewReply)
         /\ NewReply.kind = "error" \/ ~NewReply.body.success
         /\ exec' = exec]_vars

\* what get_status returns for a worker that is idle and has no model
IdleStatus == [state |-> "idle", model |-> None, progress |-> 0]

\* C27: constructed without a model argument the worker is in state idle,
\* constructed with one its first state is loading; and as long as no
\* request has been answered, a worker started without a model reports
\* {state: idle, model: null, progress: 0} to get_status.
C27_StartupState ==
    /\ srv.phase = "constructed" =>
          srv.state = IF srv.model_name = None THEN "idle" ELSE "loading"
    /\ stdout = << >> /\ srv.model_name = None => GetStatus = IdleStatus
    /\ Len(stdout) >= 1 /\ stdout[1].method = "get_status"
          /\ stdout[1].body.model = None
          => stdout[1].body = IdleStatus

\* a worker started without a model answered get_status as its first reply
C27_Witness ==
    /\ Len(stdout) >= 1
    /\ stdout[1].method = "get_status"
    /\ stdout[1].body = IdleStatus
    /\ srv.state = "idle"

(***************************************************************************)
(* Properties of the stdout stream.                                        *)
(***************************************************************************)
\* C28: each stdout line holds exactly one complete JSON object: the write
\* that follows the text of an object is the line end of that object.
C28_OneObjectPerLine ==
    \A j \in 1..Len(wire) :
       wire[j].kind = "text" /\ j < Len(wire)
         => /\ wire[j + 1].kind = "end"
            /\ wire[j + 1].writer = wire[j].writer

(***************************************************************************)
(* Properties of the RPCs that take a model id.                            *)
(***************************************************************************)
\* C29: a load_model or download_model RPC whose model id is outside the
\* registry is answered with a failure and changes neither the lifecycle
\* state, nor the server's model, nor any handler.
C29_UnlistedModelIdRejected ==
    [][LET
           \* the step in which the dispatcher serves a load_model or download_model
           \* line whose model id is outside the registry
           ServesUnlistedModel ==
               /\ ReadsAnyLine
               /\ Head(stdin).form = "object"
               /\ Head(stdin).method \in {"load_model", "download_model"}
               /\ ~ValidateModel(Head(stdin).model_name)
       IN
       ServesUnlistedModel
         => /\ Len(stdout') = Len(stdout) + 1
            /\ ~NewReply.body.success
            /\ srv'.state = srv.state
            /\ srv'.model_name = srv.model_name
            /\ srv'.handler = srv.handler
            /\ handlers' = handlers]_vars

C31_HalvingRetriesSameSlice ==
    [][LET
           \* this step is a model.encode call of the batch loop, on more than one
           \* text, that raised an OOM-class error: no rows were appended and the
           \* exception was not of another kind
           OomAboveOne ==
               /\ exec.pc = "attempt"
               /\ exec.current_batch_size > 1
               /\ exec' # exec
               /\ exec'.embeddings_list = exec.embeddings_list
               /\ exec'.encode_error # "err"
       IN
       OomAboveOne
         => /\ exec'.pc = "attempt"
            /\ exec'.i = exec.i
            /\ exec'.batch_end - exec'.i = Max(1, exec.current_batch_size \div 2)
            /\ exec'.current_batch_size = Max(1, exec.current_batch_size \div 2)]_vars

\* the context window C of the model, in tokens
ContextWindowOf(model_name) ==
    IF HasBgeM3(model_name) THEN LargeContextWindow ELSE SmallContextWindow

\* the texts of the awaited request have passed the truncation and are in
\* the hands of the batch loop or of the CPU fallback
PastTruncation ==
    /\ disp.pc = "await_exec"
    /\ exec.pc \in {"attempt", "fallback", "returned"}

\* C32: with C the model's context window the budget is
\* max(1000, min(3*C, 12000)); the list handed to the encoder has one text
\* per submitted text, in order: the prefix of exactly budget characters of
\* a text longer than the budget, and every other text unchanged.
C32_TruncationKeepsEveryText ==
    PastTruncation
      => LET submitted == disp.req.texts
             C == ContextWindowOf(handlers[exec.h].model_name)
             budget == Max(1000, Min(3 * C, 12000))
         IN  /\ Len(exec.texts) = Len(submitted)
             /\ exec.total_texts = Len(submitted)
             /\ \A j \in 1..Len(submitted) :
                   exec.texts[j] =
                     IF submitted[j].len > budget
                       THEN [id |-> submitted[j].id, len |-> budget]
                       ELSE submitted[j]

\* a request of several texts whose last one was cut to the 12000
\* characters of a large-window model, the others passed unchanged
C32_Witness ==
    /\ PastTruncation
    /\ HasBgeM3(handlers[exec.h].model_name)
    /\ Len(exec.texts) >= 2
    /\ exec.texts[1] = disp.req.texts[1]
    /\ disp.req.texts[Len(exec.texts)].len > 12000
    /\ exec.texts[Len(exec.texts)].len = 12000

\* C33: between a successfully encoded batch and the encode call of the
\* batch that follows it a cache reclamation step has run.
C33_CleanupBeforeNextBatch ==
    [][LET
           \* this step is a model.encode call of the batch loop that returned rows
           \* and is followed by the encode call of another batch
           BatchDoneAndAnotherFollows ==
               /\ exec.pc = "attempt"
               /\ Len(exec'.embeddings_list) > Len(exec.embeddings_list)
               /\ exec'.pc = "attempt"
       IN
       BatchDoneAndAnotherFollows => exec'.cleanup # "none"]_vars

(***************************************************************************)
(* Properties of EmbeddingHandler.shutdown.                                *)
(***************************************************************************)
\* C34: a shutdown call with caller timeout t seconds has waited for the
\* processing thread for at most min(t, 5) seconds (min(2t, 10) half
\* seconds), and when it has returned it has returned True, whether the
\* thread was still alive after the wait or not and whether releasing the
\* model raised or not.
C34_ShutdownWaitBoundedAndSucceeds ==
    /\ sd.waited <= Min(2 * sd.timeout_seconds, 2 * 5)
    /\ sd.pc = "done" => sd.returned = "True"

\* a shutdown call returned after its wait ran out with the thread still
\* alive and after releasing the model raised
C34_Witness ==
    /\ sd.pc = "done"
    /\ sd.alive_after_join
    /\ sd.waited > 0
    /\ sd.release = "raised"

(***************************************************************************)
(* Properties of the lifecycle transitions.                                *)
(***************************************************************************)
\* C35: an unload_model or load_model RPC releases the model of a handler
\* or writes the lifecycle state only while the idle-triggered unload of
\* that handler is not between its first and its last state write.
C35_TransitionsSerialized ==
    [][LET
           \* this step is the dispatcher serving an unload_model or load_model line
           \* that releases the model of the server's handler or writes the state
           RpcTransition ==
               /\ Serves("unload_model") \/ Serves("load_model")
               /\ srv.handler # 0
               /\ srv' # srv \/ handlers' # handlers
       IN
       RpcTransition => ~(handlers[srv.handler].timeout \in {"unloading", "deleted"})]_vars

(***************************************************************************)
(* Properties of extract_keyphrases_keybert_batch.                         *)
(***************************************************************************)
\* this step is the dispatcher serving an extract_keyphrases_keybert_batch
\* request with a non-empty list of texts
ServesKeyphraseBatch ==
    /\ Serves("extract_keyphrases_keybert_batch")
    /\ Head(stdin).form = "object"
    /\ Len(Head(stdin).texts) > 0

\* one entry per text, in input order: the phrases of that text or, for a
\* text whose extraction raised, the empty list
OneEntryPerText(batch, texts) ==
    /\ DOMAIN batch = 1..Len(texts)
    /\ \A j \in 1..Len(texts) : batch[j] \in {<< >>, Keyphrases(texts[j])}

C37_RepliesInReadOrder ==
    /\ [](\A j \in 1..Len(stdout) : stdout[j].id = j)
    /\ [](Executing(exec) => disp.pc = "await_exec")
    /\ [][ReadsAnyLine => Len(stdout) = (nreq - Len(stdin)) /\ exec.pc = "idle"]_vars

\* the second line waits unread in the pipe while the handler of the first
\* is inside an encode call
C37_Witness ==
    /\ exec.pc = "attempt"
    /\ disp.pc = "await_exec" /\ disp.req.id = 1
    /\ stdout = << >>
    /\ Len(stdin) = 1 /\ stdin[1].id = 2

(***************************************************************************)
(* Properties of the keep-alive timer.                                     *)
(***************************************************************************)
\* C38: at most one keep-alive Timer of the handler is pending at any time,
\* and no Timer is created once shutdown has cancelled the timer.
C38_SinglePendingTimer ==
    /\ [](Cardinality({i \in DOMAIN tm.timers : tm.timers[i] = "pending"}) <= 1)
    /\ [][tm.pc[DispatcherThread] = "shut_down"
            => Len(tm'.timers) = Len(tm.timers)]_vars

(***************************************************************************)
(* Properties of the wait for the background loader.                       *)
(***************************************************************************)
\* C39: when the wait of a generate_embeddings request for the loader
\* returns after a successful load, the request is not answered with a
\* failure: it is handed to the executor to be encoded.
C39_WaitReturnsToLoadedModel ==
    [][LET
           \* this step is the return of the wait on model_loaded_event in
           \* _ensure_model_loaded, the event having been set by a loader that loaded
           \* the model, which is still held
           WaitReturnsAfterLoad ==
               /\ disp.pc = "ensure_wait"
               /\ disp'.pc # "ensure_wait"
               /\ handlers[srv.handler].model_loaded_event
               /\ handlers[srv.handler].loader \in {"event_set", "done"}
               /\ handlers[srv.handler].model_attr
               /\ handlers[srv.handler].model
       IN
       WaitReturnsAfterLoad
         => /\ disp'.pc = "await_exec"
            /\ stdout' = stdout]_vars

(***************************************************************************)
(* Properties of get_status.                                               *)
(***************************************************************************)
\* C40: in every state in which get_status reports state idle it reports
\* model null and progress 0, whatever load_model and unload_model calls
\* were served before.
C40_IdleStatusIsClean ==
    GetStatus.state = "idle"
      => GetStatus.model = None /\ GetStatus.progress = 0

====
